---- MODULE Spec2Model ----
(***************************************************************************)
(* The security-info collectors of fleet-maintained-apps-growth-tracker:   *)
(* cmd/collect-security-info/main.go (macOS) and the Windows collector in  *)
(* main.go.  Both have the same main(): load the catalog and the result    *)
(* file, compute the stale entries, process them one by one, call          *)
(* saveSecurityInfo after every entry and once more at the end, while a    *)
(* second goroutine waits for SIGINT/SIGTERM, saves and exits.             *)
(***************************************************************************)
EXTENDS Integers, Sequences, FiniteSets, TLC

(* ---------------------------- bounds ----------------------------------- *)
NumSlugs == 2
MaxRuns == 2

Slugs == 1..NumSlugs

\* version strings a catalog declares; NoVersion is the empty string
Versions == {"1.0", "2.0"}
NoVersion == ""
Platforms == {"darwin", "windows"}

VARIABLES
    catalog,            \* versions.Apps, the list in data/app_versions.json
    file,               \* data/app_security_info.json on disk
    run,                \* number of collector processes started so far
    collector,          \* platform of the running collector binary
    testMode,           \* os.Args[1] == "--test"
    pc,                 \* position of the main goroutine
    idx,                \* 1-based position of the loop over macApps
    existingMap,        \* slug -> record loaded at start
    macApps,            \* the stale entries this run processes
    collectedSecurity,  \* slug -> record
    processedSlugs,     \* set of slugs
    processedCount,     \* number of successful collections
    lastSave,           \* which saveSecurityInfo call returned last, and how
    exitCode,           \* exit status of the process, -1 while none
    hpc,                \* position of the interruption-handler goroutine
    hbuf,               \* jsonData marshalled by the handler's save
    preFile,            \* the file as it was when the process started
    outcomes,           \* per finished entry of this run: "ok" or "fail"
    sigCount,           \* entries finished when the signal arrived, -1 if none
    prevRun,            \* how the previous run ended
    prevCollector       \* the collector of the previous run

\* the variables of main() and of the interruption handler
mainVars == <<catalog, file, run, collector, testMode, pc, idx, existingMap,
              macApps, collectedSecurity, processedSlugs, processedCount,
              lastSave, exitCode, hpc, hbuf, preFile, outcomes, sigCount,
              prevRun, prevCollector>>

VARIABLES
    epc,                \* position inside collectSecurityInfoForApp
    eidx,               \* loop position of the entry collectSecurityInfoForApp last took
    kind,               \* extension of the installer file downloadInstaller returned
    steps,              \* the steps performed for that entry, in order
    failedAt,           \* the step whose error collectSecurityInfoForApp returned
    scratch,            \* what tempDir holds: <<entry, name>>
    placed,             \* the installer put an application into applicationsDir
    uninstalled,        \* uninstallApp was called for the entry
    output              \* what the signing inspection returned for the entry

entryVars == <<epc, eidx, kind, steps, failedAt, scratch, placed, uninstalled, output>>

VARIABLES
    dl,                 \* one call of downloadInstaller
    dmg,                \* one call of installFromDMG
    csv,                \* one call of generateContinuousData
    trk,                \* one call of trackAppVersions
    santa,              \* one call of runSantactl
    sig,                \* one call of getAuthenticodeSignature
    hist                \* the version history file under build_history and
                        \* trackVersionChanges runs

unitVars == <<dl, dmg, csv, trk, santa, sig, hist>>

VARIABLES
    tempDirThere        \* the scratch directory tempDir exists on disk

vars == <<mainVars, entryVars, unitVars, tempDirThere>>

(* ---------------------------- data ------------------------------------- *)
\* securityAppVersionInfo; a failed version fetch leaves version and
\* installerUrl empty.
CatalogEntry(s, p, v) ==
    [slug |-> s, platform |-> p, version |-> v, hasURL |-> (v # NoVersion)]

\* appSecurityInfo
SecurityRecord(s, v, t) ==
    [slug |-> s, version |-> v, sha256 |-> "sha", lastUpdated |-> t]

EmptyMap == [s \in {} |-> 0]

Put(m, k, v) == [x \in DOMAIN m \cup {k} |-> IF x = k THEN v ELSE m[x]]

\* securityInfoData as stored at securityInfoJSON
FileOf(t, apps) == [status |-> "ok", lastUpdated |-> t, apps |-> apps]

\* what os.WriteFile leaves between O_TRUNC and the completed write
PartialFile == [status |-> "partial", lastUpdated |-> 0, apps |-> <<>>]

(* ------------------- loading and the delta set ------------------------- *)
\* loadSecurityInfo followed by the loop that fills existingMap: a file that
\* does not parse yields no existing entries; for a slug that occurs more
\* than once the last record wins.
LoadExistingMap(f) ==
    IF f.status # "ok" THEN EmptyMap
    ELSE LET n == Len(f.apps)
             slugs == {f.apps[i].slug : i \in 1..n}
             last(s) == CHOOSE i \in 1..n :
                            /\ f.apps[i].slug = s
                            /\ \A j \in 1..n : f.apps[j].slug = s => j <= i
         IN [s \in slugs |-> f.apps[last(s)]]

\* a filter that forgets the version comparison
IsStaleWhateverVersion(app, existing, platform) ==
    app.platform = platform /\ app.hasURL

\* the filter loop "Filter to macOS apps only" / "Filter to Windows apps only"
IsStale(app, existing, platform) ==
    /\ app.platform = platform
    /\ app.hasURL
    /\ \/ app.slug \notin DOMAIN existing
       \/ existing[app.slug].version # app.version

\* a filter that takes only the entries without a record
StaleAppsNewOnly(apps, existing, platform) ==
    LET Test(app) == app.platform = platform /\ app.hasURL /\ app.slug \notin DOMAIN existing
    IN SelectSeq(apps, Test)

StaleApps(apps, existing, platform) ==
    LET Test(app) == IsStale(app, existing, platform)
    IN SelectSeq(apps, Test)

\* test mode keeps only the first stale entry
LimitForTest(apps, test) ==
    IF test /\ Len(apps) > 0 THEN SubSeq(apps, 1, 1) ELSE apps

(* --------------------------- the merge --------------------------------- *)
\* "Add existing apps that weren't processed" then "Add newly collected data"
FinalSecurityMap(existing, processed, collected, apps, platform) ==
    LET found(s) == \E i \in 1..Len(apps) :
                        apps[i].slug = s /\ apps[i].platform = platform
        kept == {s \in DOMAIN existing : s \notin processed /\ found(s)}
    IN [s \in kept \cup DOMAIN collected |->
            IF s \in DOMAIN collected THEN collected[s] ELSE existing[s]]

\* Go iterates a map in an unspecified order: every enumeration of m
MapOrders(m) ==
    LET n == Cardinality(DOMAIN m)
        perms == {o \in [1..n -> DOMAIN m] :
                     \A i, j \in 1..n : i # j => o[i] # o[j]}
    IN {[i \in 1..n |-> m[o[i]]] : o \in perms}

\* a less function with the comparison turned around
SlugLessReversed(a, b) == a.slug > b.slug

\* the less function handed to sort.Slice
SlugLess(a, b) == a.slug < b.slug

RECURSIVE InsertBySlug(_, _)
InsertBySlug(r, l) ==
    IF l = <<>> THEN <<r>>
    ELSE IF SlugLess(r, Head(l)) THEN <<r>> \o l
    ELSE <<Head(l)>> \o InsertBySlug(r, Tail(l))

RECURSIVE SortBySlug(_)
SortBySlug(l) ==
    IF l = <<>> THEN <<>> ELSE InsertBySlug(Head(l), SortBySlug(Tail(l)))

\* everything saveSecurityInfo can hand to os.WriteFile at time t
SaveContents(existing, processed, collected, apps, platform, t) ==
    LET m == FinalSecurityMap(existing, processed, collected, apps, platform)
    IN {FileOf(t, SortBySlug(l)) : l \in MapOrders(m)}

\* os.WriteFile opens with O_TRUNC and then writes from offset 0.  When the
\* other goroutine completed its own write in between, the bytes land on
\* top of that content and a shorter document leaves the tail of the longer.
WriteOver(onDisk, content) ==
    IF onDisk.status = "partial" THEN content
    ELSE IF Len(content.apps) >= Len(onDisk.apps) THEN content
    ELSE PartialFile

(* --------------------------- the process ------------------------------- *)
ExitPcs == {"exit_nostale", "exit_done", "exit_finalerr", "exit_sig", "exit_sigerr"}

NoProcess == pc \in ExitPcs \cup {"idle"}

\* the loop is past its last entry: the save that follows is the final save
IsFinal == idx > Len(macApps)

\* main returned (exit status 0) and no signal was delivered during the run
RunReturned == pc \in {"exit_nostale", "exit_done"} /\ sigCount = -1

\* what the finished run reported: nothing ran yet; a full run that returned
\* with every entry collected; one that returned after warnings; any other
\* end (test flag, interruption, exit status 1)
HowRunEnded ==
    IF pc = "idle" THEN "none"
    ELSE IF RunReturned /\ ~testMode
         THEN (IF \A i \in 1..Len(outcomes) : outcomes[i] = "ok"
               THEN "clean" ELSE "failed")
         ELSE "other"

\* a catalog: any subset of the slugs in ascending order, each entry with a
\* platform and either a fetched version or none
Slot == {[present |-> FALSE, platform |-> "darwin", version |-> NoVersion]}
        \cup {[present |-> TRUE, platform |-> p, version |-> v] :
                 p \in Platforms, v \in Versions \cup {NoVersion}}

RECURSIVE CatalogFrom(_, _)
CatalogFrom(c, s) ==
    IF s > NumSlugs THEN <<>>
    ELSE (IF c[s].present
          THEN <<CatalogEntry(s, c[s].platform, c[s].version)>>
          ELSE <<>>) \o CatalogFrom(c, s + 1)

\* a result file written by an earlier run: sorted, at most one record per
\* slug (none where pv gives no version)
RECURSIVE StoreFrom(_, _)
StoreFrom(pv, s) ==
    IF s > NumSlugs THEN <<>>
    ELSE (IF pv[s] # NoVersion THEN <<SecurityRecord(s, pv[s], 0)>> ELSE <<>>)
         \o StoreFrom(pv, s + 1)

\* nothing has been downloaded or installed, tempDir is empty
EntryIdle ==
    /\ epc = "idle"
    /\ eidx = 0
    /\ kind = "none"
    /\ steps = <<>>
    /\ failedAt = "none"
    /\ scratch = {}
    /\ placed = FALSE
    /\ uninstalled = FALSE
    /\ output = "none"

\* none of the functions followed on their own has been called
UnitsIdle ==
    /\ dl = [at |-> "off"]
    /\ dmg = [at |-> "off"]
    /\ csv = [at |-> "off"]
    /\ trk = [at |-> "off"]
    /\ santa = [at |-> "off"]
    /\ sig = [at |-> "off"]
    /\ hist = [at |-> "off"]

Init ==
    /\ \E c \in [Slugs -> Slot] : catalog = CatalogFrom(c, 1)
    /\ \E pv \in [Slugs -> Versions \cup {NoVersion}] : file = FileOf(0, StoreFrom(pv, 1))
    /\ run = 0
    /\ collector = "none"
    /\ testMode = FALSE
    /\ pc = "idle"
    /\ idx = 1
    /\ existingMap = EmptyMap
    /\ macApps = <<>>
    /\ collectedSecurity = EmptyMap
    /\ processedSlugs = {}
    /\ processedCount = 0
    /\ lastSave = "none"
    /\ exitCode = -1
    /\ hpc = "off"
    /\ hbuf = PartialFile
    /\ preFile = file
    /\ outcomes = <<>>
    /\ sigCount = -1
    /\ prevRun = "none"
    /\ prevCollector = "none"
    /\ EntryIdle
    /\ UnitsIdle
    /\ tempDirThere = FALSE

\* main() up to the loop: load, filter, early return when nothing is stale,
\* install the handler
StartRun(p, t) ==
    /\ NoProcess
    /\ run' = run + 1
    /\ collector' = p
    /\ testMode' = t
    /\ preFile' = file
    /\ existingMap' = LoadExistingMap(file)
    /\ macApps' = LimitForTest(StaleApps(catalog, existingMap', p), t)
    /\ collectedSecurity' = EmptyMap
    /\ processedSlugs' = {}
    /\ processedCount' = 0
    /\ idx' = 1
    /\ lastSave' = "none"
    /\ hbuf' = PartialFile
    /\ outcomes' = <<>>
    /\ sigCount' = -1
    /\ prevRun' = HowRunEnded
    /\ prevCollector' = collector
    /\ IF Len(macApps') = 0
       THEN pc' = "exit_nostale" /\ exitCode' = 0 /\ hpc' = "off"
       ELSE pc' = "next" /\ exitCode' = -1 /\ hpc' = "wait"
    /\ tempDirThere' = (tempDirThere \/ Len(macApps') # 0)
    /\ UNCHANGED <<catalog, file, entryVars, unitVars>>

\* the loop takes the next entry and calls collectSecurityInfoForApp
BeginEntry ==
    /\ pc = "next"
    /\ ~IsFinal
    /\ pc' = "collect"
    /\ UNCHANGED <<catalog, file, run, collector, testMode, idx, existingMap,
                   macApps, collectedSecurity, processedSlugs, processedCount,
                   lastSave, exitCode, hpc, hbuf, preFile, outcomes, sigCount,
                   prevRun, prevCollector, entryVars, unitVars, tempDirThere>>

\* the record parseSantactlOutput builds for a successful collection
FreshRecord(app, t) == SecurityRecord(app.slug, app.version, t)

\* a failure branch that stores the empty record collectSecurityInfoForApp
\* returned with its error
FailRecordEmpty(app, existing) ==
    [slug |-> 0, version |-> NoVersion, sha256 |-> "", lastUpdated |-> 0]

\* what the failure branch stores for an entry with an existing record
FailRecord(app, existing) == existing

\* a success branch that batches: it goes on to the next entry without saving
CollectOkNoSave ==
    /\ pc = "collect"
    /\ LET app == macApps[idx]
       IN /\ collectedSecurity' = Put(collectedSecurity, app.slug, SecurityRecord(app.slug, app.version, run))
          /\ processedSlugs' = processedSlugs \cup {app.slug}
    /\ processedCount' = processedCount + 1
    /\ outcomes' = Append(outcomes, "ok")
    /\ pc' = "next"
    /\ idx' = idx + 1
    /\ UNCHANGED <<catalog, file, run, collector, testMode, existingMap,
                   macApps, lastSave, exitCode, hpc, hbuf, preFile, sigCount,
                   prevRun, prevCollector, entryVars, unitVars, tempDirThere>>

\* collectSecurityInfoForApp returned a record
CollectOk ==
    /\ pc = "collect"
    /\ LET app == macApps[idx]
       IN /\ collectedSecurity' = Put(collectedSecurity, app.slug, FreshRecord(app, run))
          /\ processedSlugs' = processedSlugs \cup {app.slug}
    /\ processedCount' = processedCount + 1
    /\ outcomes' = Append(outcomes, "ok")
    /\ pc' = "save"
    /\ UNCHANGED <<catalog, file, run, collector, testMode, idx, existingMap,
                   macApps, lastSave, exitCode, hpc, hbuf, preFile, sigCount,
                   prevRun, prevCollector, entryVars, unitVars, tempDirThere>>

\* a failure branch that gives up the whole run
CollectFailHalts ==
    /\ pc = "collect"
    /\ outcomes' = Append(outcomes, "fail")
    /\ pc' = "exit_finalerr"
    /\ exitCode' = 1
    /\ hpc' = "off"
    /\ UNCHANGED <<catalog, file, run, collector, testMode, idx, existingMap,
                   macApps, collectedSecurity, processedSlugs, processedCount,
                   lastSave, hbuf, preFile, sigCount, prevRun, prevCollector, entryVars, unitVars, tempDirThere>>

\* collectSecurityInfoForApp returned an error (download, install, locate,
\* inspect or parse): "Keep existing info if available"
CollectFail ==
    /\ pc = "collect"
    /\ LET app == macApps[idx]
       IN IF app.slug \in DOMAIN existingMap
          THEN /\ collectedSecurity' =
                      Put(collectedSecurity, app.slug, FailRecord(app, existingMap[app.slug]))
               /\ processedSlugs' = processedSlugs \cup {app.slug}
          ELSE UNCHANGED <<collectedSecurity, processedSlugs>>
    /\ outcomes' = Append(outcomes, "fail")
    /\ pc' = "save"
    /\ UNCHANGED <<catalog, file, run, collector, testMode, idx, existingMap,
                   macApps, processedCount, lastSave, exitCode, hpc, hbuf,
                   preFile, sigCount, prevRun, prevCollector, entryVars, unitVars, tempDirThere>>

\* main is about to call saveSecurityInfo: after an entry, or after the loop
MainAtSave == pc = "save" \/ (pc = "next" /\ IsFinal)

\* the content main's saveSecurityInfo marshals from the current maps
MainContents ==
    SaveContents(existingMap, processedSlugs, collectedSecurity, catalog, collector, run)

\* an error handling that only warns, after the loop as well
AfterSaveFailedWarnOnly ==
    /\ lastSave' = (IF IsFinal THEN "final_err" ELSE "entry_err")
    /\ IF IsFinal
       THEN pc' = "exit_done" /\ exitCode' = 0 /\ hpc' = "off" /\ idx' = idx
       ELSE pc' = "next" /\ idx' = idx + 1 /\ UNCHANGED <<exitCode, hpc>>

\* where main goes when saveSecurityInfo returned err after an entry (a
\* warning, then the next entry) or after the loop (os.Exit(1))
AfterSaveFailed ==
    /\ lastSave' = (IF IsFinal THEN "final_err" ELSE "entry_err")
    /\ IF IsFinal
       THEN pc' = "exit_finalerr" /\ exitCode' = 1 /\ hpc' = "off" /\ idx' = idx
       ELSE pc' = "next" /\ idx' = idx + 1 /\ UNCHANGED <<exitCode, hpc>>

\* where main goes when saveSecurityInfo returned nil
AfterSaveDone ==
    /\ lastSave' = (IF IsFinal THEN "final_ok" ELSE "entry_ok")
    /\ tempDirThere' = (tempDirThere /\ ~IsFinal)
    /\ IF IsFinal
       THEN pc' = "exit_done" /\ exitCode' = 0 /\ hpc' = "off" /\ idx' = idx
       ELSE pc' = "next" /\ idx' = idx + 1 /\ UNCHANGED <<exitCode, hpc>>

\* os.WriteFile fails to open the file
MainOpenFail ==
    /\ MainAtSave
    /\ AfterSaveFailed
    /\ UNCHANGED <<catalog, file, run, collector, testMode, existingMap,
                   macApps, collectedSecurity, processedSlugs, processedCount,
                   hbuf, preFile, outcomes, sigCount, prevRun, prevCollector, entryVars, unitVars, tempDirThere>>

\* os.WriteFile opened the file with O_TRUNC
MainWriteBegin ==
    /\ MainAtSave
    /\ file' = PartialFile
    /\ pc' = "write"
    /\ UNCHANGED <<catalog, run, collector, testMode, idx, existingMap,
                   macApps, collectedSecurity, processedSlugs, processedCount,
                   lastSave, exitCode, hpc, hbuf, preFile, outcomes, sigCount,
                   prevRun, prevCollector, entryVars, unitVars, tempDirThere>>

\* os.WriteFile wrote the document and returned nil
MainWriteEnd ==
    /\ pc = "write"
    /\ \E c \in MainContents : file' = WriteOver(file, c)
    /\ AfterSaveDone
    /\ UNCHANGED <<catalog, run, collector, testMode, existingMap,
                   macApps, collectedSecurity, processedSlugs, processedCount,
                   hbuf, preFile, outcomes, sigCount, prevRun, prevCollector, entryVars, unitVars>>

\* os.WriteFile failed after the truncation
MainWriteFail ==
    /\ pc = "write"
    /\ AfterSaveFailed
    /\ UNCHANGED <<catalog, file, run, collector, testMode, existingMap,
                   macApps, collectedSecurity, processedSlugs, processedCount,
                   hbuf, preFile, outcomes, sigCount, prevRun, prevCollector, entryVars, unitVars, tempDirThere>>

(* ---------------------- the interruption handler ----------------------- *)
\* SIGINT or SIGTERM is delivered to sigChan
Signal ==
    /\ hpc = "wait"
    /\ hpc' = "save"
    /\ sigCount' = Len(outcomes)
    /\ UNCHANGED <<catalog, file, run, collector, testMode, pc, idx, existingMap,
                   macApps, collectedSecurity, processedSlugs, processedCount,
                   lastSave, exitCode, hbuf, preFile, outcomes,
                   prevRun, prevCollector, entryVars, unitVars, tempDirThere>>

\* the handler's os.Exit(1) after a failed save
HandlerExitError ==
    /\ lastSave' = "handler_err"
    /\ pc' = "exit_sigerr"
    /\ exitCode' = 1
    /\ hpc' = "off"

\* the handler's saveSecurityInfo fails to open the file
HandlerOpenFail ==
    /\ hpc = "save"
    /\ HandlerExitError
    /\ UNCHANGED <<catalog, file, run, collector, testMode, idx, existingMap,
                   macApps, collectedSecurity, processedSlugs, processedCount,
                   hbuf, preFile, outcomes, sigCount,
                   prevRun, prevCollector, entryVars, unitVars, tempDirThere>>

\* the handler's saveSecurityInfo merges, marshals and opens with O_TRUNC
HandlerWriteBegin ==
    /\ hpc = "save"
    /\ \E c \in MainContents : hbuf' = c
    /\ file' = PartialFile
    /\ hpc' = "write"
    /\ UNCHANGED <<catalog, run, collector, testMode, pc, idx, existingMap,
                   macApps, collectedSecurity, processedSlugs, processedCount,
                   lastSave, exitCode, preFile, outcomes, sigCount,
                   prevRun, prevCollector, entryVars, unitVars, tempDirThere>>

\* the handler's os.WriteFile wrote the document
HandlerWriteEnd ==
    /\ hpc = "write"
    /\ file' = WriteOver(file, hbuf)
    /\ hpc' = "exit"
    /\ lastSave' = "handler_ok"
    /\ UNCHANGED <<catalog, run, collector, testMode, pc, idx, existingMap,
                   macApps, collectedSecurity, processedSlugs, processedCount,
                   exitCode, hbuf, preFile, outcomes, sigCount,
                   prevRun, prevCollector, entryVars, unitVars, tempDirThere>>

\* the handler's os.WriteFile failed after the truncation
HandlerWriteFail ==
    /\ hpc = "write"
    /\ HandlerExitError
    /\ UNCHANGED <<catalog, file, run, collector, testMode, idx, existingMap,
                   macApps, collectedSecurity, processedSlugs, processedCount,
                   hbuf, preFile, outcomes, sigCount,
                   prevRun, prevCollector, entryVars, unitVars, tempDirThere>>

\* "Progress saved", os.Exit(0)
HandlerExit ==
    /\ hpc = "exit"
    /\ pc' = "exit_sig"
    /\ exitCode' = 0
    /\ hpc' = "off"
    /\ UNCHANGED <<catalog, file, run, collector, testMode, idx, existingMap,
                   macApps, collectedSecurity, processedSlugs, processedCount,
                   lastSave, hbuf, preFile, outcomes, sigCount,
                   prevRun, prevCollector, entryVars, unitVars, tempDirThere>>

MainNext ==
    \/ BeginEntry
    \/ CollectOk
    \/ CollectFail
    \/ MainOpenFail
    \/ MainWriteBegin
    \/ MainWriteEnd
    \/ MainWriteFail

HandlerNext ==
    \/ HandlerOpenFail
    \/ HandlerWriteBegin
    \/ HandlerWriteEnd
    \/ HandlerWriteFail
    \/ HandlerExit

\* the collector is started for the first time
FirstRun == \E p \in Platforms, t \in BOOLEAN : run = 0 /\ StartRun(p, t)

\* the collector is started again after an earlier run has ended
LaterRun == \E p \in Platforms, t \in BOOLEAN : run \in 1..(MaxRuns - 1) /\ StartRun(p, t)

Next ==
    \/ FirstRun
    \/ MainNext
    \/ Signal
    \/ HandlerNext

\* one run of a collector from any catalog and any earlier result file
Spec == Init /\ [][Next]_vars

\* successive runs against an unchanged catalog
NextRuns == Next \/ LaterRun

SpecRuns == Init /\ [][NextRuns]_vars

(* ------------------- collectSecurityInfoForApp -------------------------- *)
\* the extensions a downloaded installer can carry: getInstallerExtension
\* knows three and defaults to .dmg; the Windows downloadInstaller takes
\* whatever filepath.Ext(url) gives
Kinds(platform) ==
    IF platform = "darwin" THEN {"dmg", "pkg", "zip"} ELSE {"msi", "exe", "zip", "other"}

\* what runSantactl can hand to parseSantactlOutput with a nil error: nothing
\* usable ("", "[]", "null"), bytes that are no JSON array of objects, an
\* array whose first object has a Rule and no signing field, one that has
\* neither, one with CDHash, Signing ID or Team ID but no SHA-256, and one
\* with SHA-256
ToolOutputs == {"empty", "invalid", "rule", "bare", "cdhash", "sha"}

\* a parser that accepts whatever it is given
ParseNeverFails(o) == FALSE

ParseAcceptsRule(o) == o \in {"empty", "invalid"}

\* the error returns of parseSantactlOutput
ParseFails(o) == o \in {"empty", "invalid", "rule"}

\* securityInfo.Sha256: the SHA-256 string of the first object, on Windows
\* the digest calculateSHA256 computed
Sha256Of(platform, o) ==
    IF platform = "windows" THEN "sha"
    ELSE IF o = "sha" THEN "sha" ELSE ""

\* a record that is built without the declared version
ParsedRecordNoVersion(platform, o, app, t) ==
    [slug |-> app.slug, version |-> NoVersion,
     sha256 |-> Sha256Of(platform, o), lastUpdated |-> t]

\* the appSecurityInfo collectSecurityInfoForApp returns with a nil error
ParsedRecord(platform, o, app, t) ==
    [slug |-> app.slug, version |-> app.version,
     sha256 |-> Sha256Of(platform, o), lastUpdated |-> t]

\* tempDir after the install step of entry i: installFromDMG recreates
\* tempDir/mnt, installFromZIP, extractFromMSI and extractFromZIP recreate
\* tempDir/extracted
WorkDirs(dir, i, k) ==
    IF k = "dmg"
    THEN {f \in dir : f[2] # "mnt"} \cup {<<i, "mnt">>}
    ELSE IF k \in {"zip", "msi"}
         THEN {f \in dir : f[2] # "extracted"} \cup {<<i, "extracted">>}
         ELSE dir

\* defer os.Remove(installerPath)
RemoveInstaller(dir, i) == dir \ {<<i, "installer">>}

\* the entry the loop is at has not been handed to collectSecurityInfoForApp
EntryPending == pc = "collect" /\ eidx < idx

\* downloadInstaller returns an error; a partial file is removed
DownloadFail ==
    /\ EntryPending
    /\ eidx' = idx
    /\ steps' = <<"download">>
    /\ failedAt' = "download"
    /\ epc' = "ret_err"
    /\ kind' = "none"
    /\ placed' = FALSE
    /\ uninstalled' = FALSE
    /\ output' = "none"
    /\ UNCHANGED <<mainVars, scratch, unitVars, tempDirThere>>

\* downloadInstaller returns the path of the installer in tempDir
DownloadOk ==
    /\ EntryPending
    /\ eidx' = idx
    /\ steps' = <<"download">>
    /\ failedAt' = "none"
    /\ epc' = "install"
    /\ \E k \in Kinds(collector) : kind' = k
    /\ scratch' = scratch \cup {<<idx, "installer">>}
    /\ placed' = FALSE
    /\ uninstalled' = FALSE
    /\ output' = "none"
    /\ UNCHANGED <<mainVars, unitVars, tempDirThere>>

\* installApp / extractOrInstallApp returns an error before any application
\* was put into applicationsDir (mount, extraction or installer failed, no
\* app bundle or executable found, unsupported type); extractFromEXE has no
\* error return
InstallFail ==
    /\ epc = "install"
    /\ kind # "exe"
    /\ steps' = Append(steps, "install")
    /\ failedAt' = "install"
    /\ epc' = "ret_err"
    /\ scratch' = RemoveInstaller(WorkDirs(scratch, eidx, kind), eidx)
    /\ UNCHANGED <<mainVars, eidx, kind, placed, uninstalled, output, unitVars, tempDirThere>>

\* installApp returns an error after the installer ran or the bundle was
\* copied: findInstalledApp does not find what the package installed, or the
\* copied bundle fails its check
InstallFailPlaced ==
    /\ epc = "install"
    /\ collector = "darwin"
    /\ steps' = Append(steps, "install")
    /\ failedAt' = "install"
    /\ placed' = TRUE
    /\ epc' = "ret_err"
    /\ scratch' = RemoveInstaller(WorkDirs(scratch, eidx, kind), eidx)
    /\ UNCHANGED <<mainVars, eidx, kind, uninstalled, output, unitVars, tempDirThere>>

\* installApp returned the path of the installed application,
\* extractOrInstallApp the path of the executable
InstallOk ==
    /\ epc = "install"
    /\ kind # "other"
    /\ steps' = Append(steps, "install")
    /\ placed' = (collector = "darwin")
    /\ epc' = (IF collector = "darwin" THEN "verify" ELSE "hash")
    /\ scratch' = WorkDirs(scratch, eidx, kind)
    /\ UNCHANGED <<mainVars, eidx, kind, failedAt, uninstalled, output, unitVars, tempDirThere>>

\* "installed app not found": os.Stat(appPath) fails and the function returns
VerifyFail ==
    /\ epc = "verify"
    /\ failedAt' = "install"
    /\ epc' = "ret_err"
    /\ scratch' = RemoveInstaller(scratch, eidx)
    /\ UNCHANGED <<mainVars, eidx, kind, steps, placed, uninstalled, output, unitVars, tempDirThere>>

VerifyOk ==
    /\ epc = "verify"
    /\ epc' = "inspect"
    /\ UNCHANGED <<mainVars, eidx, kind, steps, failedAt, scratch, placed,
                   uninstalled, output, unitVars, tempDirThere>>

\* Windows: calculateSHA256 returns an error
HashFail ==
    /\ epc = "hash"
    /\ steps' = Append(steps, "inspect")
    /\ failedAt' = "inspect"
    /\ epc' = "ret_err"
    /\ scratch' = RemoveInstaller(scratch, eidx)
    /\ UNCHANGED <<mainVars, eidx, kind, placed, uninstalled, output, unitVars, tempDirThere>>

HashOk ==
    /\ epc = "hash"
    /\ epc' = "inspect"
    /\ UNCHANGED <<mainVars, eidx, kind, steps, failedAt, scratch, placed,
                   uninstalled, output, unitVars, tempDirThere>>

\* Windows: getAuthenticodeSignature; when PowerShell, signtool and certutil
\* all fail the error is printed as a note and the record is built from the
\* digest alone
Signature ==
    /\ epc = "inspect"
    /\ collector = "windows"
    /\ \E o \in {"sig", "sigerr"} : output' = o
    /\ steps' = Append(steps, "inspect")
    /\ epc' = "uninstall"
    /\ UNCHANGED <<mainVars, eidx, kind, failedAt, scratch, placed, uninstalled, unitVars, tempDirThere>>

\* an inspection error after which the function goes on to its last step
InspectErrorGoesOn ==
    /\ epc = "inspect"
    /\ collector = "darwin"
    /\ output' = "toolerr"
    /\ steps' = Append(steps, "inspect")
    /\ failedAt' = "inspect"
    /\ epc' = "uninstall"
    /\ UNCHANGED <<mainVars, eidx, kind, scratch, placed, uninstalled, unitVars, tempDirThere>>

\* runSantactl returns an error: uninstallApp, then the error return
InspectError ==
    /\ epc = "inspect"
    /\ collector = "darwin"
    /\ output' = "toolerr"
    /\ steps' = steps \o <<"inspect", "uninstall">>
    /\ failedAt' = "inspect"
    /\ uninstalled' = TRUE
    /\ epc' = "ret_err"
    /\ scratch' = RemoveInstaller(scratch, eidx)
    /\ UNCHANGED <<mainVars, eidx, kind, placed, unitVars, tempDirThere>>

\* runSantactl returns bytes and a nil error
InspectOk ==
    /\ epc = "inspect"
    /\ collector = "darwin"
    /\ \E o \in ToolOutputs : output' = o
    /\ steps' = Append(steps, "inspect")
    /\ epc' = "parse"
    /\ UNCHANGED <<mainVars, eidx, kind, failedAt, scratch, placed, uninstalled, unitVars, tempDirThere>>

\* parseSantactlOutput returns an error: uninstallApp, then the error return
ParseError ==
    /\ epc = "parse"
    /\ ParseFails(output)
    /\ steps' = Append(steps, "uninstall")
    /\ failedAt' = "inspect"
    /\ uninstalled' = TRUE
    /\ epc' = "ret_err"
    /\ scratch' = RemoveInstaller(scratch, eidx)
    /\ UNCHANGED <<mainVars, eidx, kind, placed, output, unitVars, tempDirThere>>

ParseOk ==
    /\ epc = "parse"
    /\ ~ParseFails(output)
    /\ epc' = "uninstall"
    /\ UNCHANGED <<mainVars, eidx, kind, steps, failedAt, scratch, placed,
                   uninstalled, output, unitVars, tempDirThere>>

\* uninstallApp on the success path, then return securityInfo, nil
Uninstall ==
    /\ epc = "uninstall"
    /\ steps' = Append(steps, "uninstall")
    /\ uninstalled' = TRUE
    /\ epc' = "ret_ok"
    /\ scratch' = RemoveInstaller(scratch, eidx)
    /\ UNCHANGED <<mainVars, eidx, kind, failedAt, placed, output, unitVars, tempDirThere>>

\* main stores the record collectSecurityInfoForApp returned
RecordCollected ==
    /\ pc = "collect"
    /\ epc = "ret_ok"
    /\ eidx = idx
    /\ LET app == macApps[idx]
       IN /\ collectedSecurity' =
                 Put(collectedSecurity, app.slug, ParsedRecord(collector, output, app, run))
          /\ processedSlugs' = processedSlugs \cup {app.slug}
    /\ processedCount' = processedCount + 1
    /\ outcomes' = Append(outcomes, "ok")
    /\ pc' = "save"
    /\ UNCHANGED <<catalog, file, run, collector, testMode, idx, existingMap,
                   macApps, lastSave, exitCode, hpc, hbuf, preFile, sigCount,
                   prevRun, prevCollector, entryVars, unitVars, tempDirThere>>

\* main takes the failure branch for the error collectSecurityInfoForApp returned
RecordFailed ==
    /\ epc = "ret_err"
    /\ eidx = idx
    /\ CollectFail

\* cleanupTempFiles, the last statement of the success path of the loop body
CleanupTempFiles ==
    /\ pc = "next"
    /\ epc = "ret_ok"
    /\ scratch' = {}
    /\ epc' = "idle"
    /\ UNCHANGED <<mainVars, eidx, kind, steps, failedAt, placed, uninstalled,
                   output, unitVars, tempDirThere>>

\* the loop body has run to its end: nothing of it is left to do before the
\* next entry or the final save
BodyDone == pc = "next" => epc # "ret_ok"

EntryBegin == BodyDone /\ BeginEntry

EntryOpenFail == BodyDone /\ MainOpenFail

EntryWriteBegin == BodyDone /\ MainWriteBegin

EntryNext ==
    \/ FirstRun
    \/ EntryBegin
    \/ DownloadFail
    \/ DownloadOk
    \/ InstallFail
    \/ InstallFailPlaced
    \/ InstallOk
    \/ VerifyFail
    \/ VerifyOk
    \/ HashFail
    \/ HashOk
    \/ Signature
    \/ InspectError
    \/ InspectOk
    \/ ParseError
    \/ ParseOk
    \/ Uninstall
    \/ RecordCollected
    \/ RecordFailed
    \/ EntryOpenFail
    \/ EntryWriteBegin
    \/ MainWriteEnd
    \/ MainWriteFail
    \/ CleanupTempFiles

\* one run of a collector that no signal interrupts, every entry followed
\* through collectSecurityInfoForApp
EntrySpec == Init /\ [][EntryNext]_vars

(* --------------------------- downloadInstaller -------------------------- *)
\* no collector process exists: the state the functions followed on their
\* own are called in
MainIdle ==
    /\ catalog = <<>>
    /\ file = FileOf(0, <<>>)
    /\ run = 0
    /\ collector = "none"
    /\ testMode = FALSE
    /\ pc = "idle"
    /\ idx = 1
    /\ existingMap = EmptyMap
    /\ macApps = <<>>
    /\ collectedSecurity = EmptyMap
    /\ processedSlugs = {}
    /\ processedCount = 0
    /\ lastSave = "none"
    /\ exitCode = -1
    /\ hpc = "off"
    /\ hbuf = PartialFile
    /\ preFile = file
    /\ outcomes = <<>>
    /\ sigCount = -1
    /\ prevRun = "none"
    /\ prevCollector = "none"
    /\ tempDirThere = FALSE

\* installer URLs by what their path ends in, Content-Type headers by the
\* media type they name ("" is no header)
Urls == {"x.dmg", "x.pkg", "x.zip", "x"}
ContentTypes == {"", "application/x-apple-diskimage", "application/octet-stream",
                 "application/zip", "application/x-pkg", "text/html"}

\* what the downloaded bytes are, and the word `file` prints for them
Contents == {"xar", "udif", "zip", "zlib", "html"}
Describe(c) ==
    CASE c = "xar" -> {"xar archive"}
      [] c = "udif" -> {"disk image"}
      [] c = "zip" -> {"zip archive"}
      [] c = "zlib" -> {"compressed"}
      [] OTHER -> {}

\* a slug may contain the letters of an extension
SlugWords == {"", "pkg", "dmg", "zip"}

\* getInstallerExtension: Content-Type first, then the known extensions in the
\* URL path; "" makes downloadInstaller default to .dmg
GetInstallerExtension(url, ct) ==
    IF ct \in {"application/x-apple-diskimage", "application/octet-stream"} /\ url = "x.dmg"
    THEN ".dmg"
    ELSE IF ct = "application/zip" THEN ".zip"
    ELSE IF ct = "application/x-pkg" THEN ".pkg"
    ELSE IF url = "x.dmg" THEN ".dmg"
    ELSE IF url = "x.pkg" THEN ".pkg"
    ELSE IF url = "x.zip" THEN ".zip"
    ELSE ""

\* the words of the lower-cased output of `file <path>`: the path, that is the
\* slug and the extension, followed by the description of the content
FileOutput(slugWord, ext, c) ==
    ({slugWord} \ {""}) \cup {SubSeq(ext, 2, 4)} \cup Describe(c)

\* a probe that looks for a disk image before it looks for a package
DetectDiskImageFirst(words) ==
    IF "disk image" \in words \/ "dmg" \in words \/ "udif" \in words THEN ".dmg"
    ELSE IF "xar archive" \in words \/ "pkg" \in words THEN ".pkg"
    ELSE IF "zip archive" \in words \/ "zip" \in words
            \/ ("compressed" \in words /\ "dmg" \notin words) THEN ".zip"
    ELSE ""

\* detectActualFileType on the output of `file`
DetectActualFileType(words) ==
    IF "xar archive" \in words \/ "pkg" \in words THEN ".pkg"
    ELSE IF "disk image" \in words \/ "dmg" \in words \/ "udif" \in words THEN ".dmg"
    ELSE IF "zip archive" \in words \/ "zip" \in words
            \/ ("compressed" \in words /\ "dmg" \notin words) THEN ".zip"
    ELSE ""

\* the call downloadInstaller(url, slug) with the response the server gives
DlCalls ==
    [at : {"get"}, url : Urls, ct : ContentTypes, content : Contents,
     slugWord : SlugWords, ext : {""}, actual : {"none"}, label : {""},
     renamed : {"no"}, err : {""}]

DlFrame == UNCHANGED <<mainVars, entryVars, dmg, csv, trk, santa, sig, hist, tempDirThere>>

\* http.Get fails or the status is not 200
DlGetFail ==
    /\ dl.at = "get"
    /\ dl' = [dl EXCEPT !.at = "returned", !.err = "get"]
    /\ DlFrame

\* the response arrives: the extension is chosen and the file created
DlCreate ==
    /\ dl.at = "get"
    /\ LET e == GetInstallerExtension(dl.url, dl.ct)
       IN dl' = [dl EXCEPT !.at = "copy", !.ext = IF e = "" THEN ".dmg" ELSE e]
    /\ DlFrame

\* os.Create or io.Copy fails, or the file is empty: it is removed
DlCopyFail ==
    /\ dl.at = "copy"
    /\ dl' = [dl EXCEPT !.at = "returned", !.err = "copy"]
    /\ DlFrame

DlCopyOk ==
    /\ dl.at = "copy"
    /\ dl' = [dl EXCEPT !.at = "probe"]
    /\ DlFrame

\* exec `file` fails: detectActualFileType returns an error and the file
\* keeps its name
DlProbeFail ==
    /\ dl.at = "probe"
    /\ dl' = [dl EXCEPT !.at = "returned", !.actual = "error", !.label = dl.ext]
    /\ DlFrame

\* detectActualFileType returns; without a difference the name is returned
DlProbe ==
    /\ dl.at = "probe"
    /\ LET a == DetectActualFileType(FileOutput(dl.slugWord, dl.ext, dl.content))
       IN dl' = IF a # "" /\ a # dl.ext
                THEN [dl EXCEPT !.at = "rename", !.actual = a]
                ELSE [dl EXCEPT !.at = "returned", !.actual = a, !.label = dl.ext]
    /\ DlFrame

\* os.Rename fails: a warning, the original filename is returned
DlRenameFail ==
    /\ dl.at = "rename"
    /\ dl' = [dl EXCEPT !.at = "returned", !.renamed = "failed", !.label = dl.ext]
    /\ DlFrame

DlRenameOk ==
    /\ dl.at = "rename"
    /\ dl' = [dl EXCEPT !.at = "returned", !.renamed = "yes", !.label = dl.actual]
    /\ DlFrame

DlInit ==
    /\ MainIdle
    /\ EntryIdle
    /\ dl \in DlCalls
    /\ dmg = [at |-> "off"]
    /\ csv = [at |-> "off"]
    /\ trk = [at |-> "off"]
    /\ santa = [at |-> "off"]
    /\ sig = [at |-> "off"]
    /\ hist = [at |-> "off"]

DlNext ==
    \/ DlGetFail
    \/ DlCreate
    \/ DlCopyFail
    \/ DlCopyOk
    \/ DlProbeFail
    \/ DlProbe
    \/ DlRenameFail
    \/ DlRenameOk

\* one call of the macOS downloadInstaller
DlSpec == DlInit /\ [][DlNext]_vars

(* ----------------------------- installFromDMG --------------------------- *)
\* the name the image gives its volume: one the system-volume heuristics let
\* through, or one they match (it contains macintosh, system or recovery)
VolumeNames == {"plain", "system"}

\* what the search through /Volumes/* for the most recently modified volume
\* that does not look like a system volume can come up with: the volume of
\* the image, another volume, or none
GlobChoices(volName) ==
    IF volName = "plain" THEN {"volume", "othervolume"} ELSE {"othervolume", "nothing"}

\* the call installFromDMG(dmgPath, app): mountPoint starts as tempDir/mnt
DmgCalls ==
    [at : {"stat"}, volName : VolumeNames, tried : {<<>>}, attachedBy : {{}},
     where : {"none"}, mountPoint : {"mnt"}, deferred : {FALSE},
     detached : {"none"}, result : {""}]

DmgFrame == UNCHANGED <<mainVars, entryVars, dl, csv, trk, santa, sig, hist, tempDirThere>>

\* the image file is missing or empty, or the mount point cannot be created
DmgStatFail ==
    /\ dmg.at = "stat"
    /\ dmg' = [dmg EXCEPT !.at = "returned", !.result = "err_stat"]
    /\ DmgFrame

\* the file is there; tempDir/mnt is removed and created anew
DmgPrepare ==
    /\ dmg.at = "stat"
    /\ dmg' = [dmg EXCEPT !.at = "attach1"]
    /\ DmgFrame

\* hdiutil attach -mountpoint tempDir/mnt -quiet succeeds
DmgAttach1Ok ==
    /\ dmg.at = "attach1"
    /\ dmg' = [dmg EXCEPT !.at = "resolve1", !.tried = Append(@, 1),
                          !.attachedBy = @ \cup {1}, !.where = "mnt"]
    /\ DmgFrame

DmgAttach1Fail ==
    /\ dmg.at = "attach1"
    /\ dmg' = [dmg EXCEPT !.at = "attach2", !.tried = Append(@, 1)]
    /\ DmgFrame

\* method 1 succeeded: when os.Stat(mountPoint) fails the output is searched
\* for a /Volumes/ line, which replaces mountPoint when there is one
DmgResolve1 ==
    /\ dmg.at = "resolve1"
    /\ \E statOk \in BOOLEAN, printed \in BOOLEAN :
           dmg' = [dmg EXCEPT !.at = "verify",
                              !.mountPoint = IF ~statOk /\ printed THEN "volume" ELSE @]
    /\ DmgFrame

\* hdiutil attach without a mount point succeeds: the image is in /Volumes
DmgAttach2Ok ==
    /\ dmg.at = "attach2"
    /\ dmg' = [dmg EXCEPT !.at = "resolve2", !.tried = Append(@, 2),
                          !.attachedBy = @ \cup {2}, !.where = "volume"]
    /\ DmgFrame

DmgAttach2Fail ==
    /\ dmg.at = "attach2"
    /\ dmg' = [dmg EXCEPT !.at = "attach3", !.tried = Append(@, 2)]
    /\ DmgFrame

\* method 2 succeeded: the first /Volumes/ line of the output is taken as it
\* is; without one the most recent volume that is no system volume is taken
DmgResolve2 ==
    /\ dmg.at = "resolve2"
    /\ \E printed \in BOOLEAN, g \in GlobChoices(dmg.volName) :
           /\ printed \/ g # "nothing"
           /\ dmg' = [dmg EXCEPT !.at = "verify",
                                 !.mountPoint = IF printed THEN "volume" ELSE g]
    /\ DmgFrame

\* "could not determine mount point"
DmgResolve2Fail ==
    /\ dmg.at = "resolve2"
    /\ "nothing" \in GlobChoices(dmg.volName)
    /\ dmg' = [dmg EXCEPT !.at = "returned", !.result = "err_point"]
    /\ DmgFrame

\* the third attach, without -quiet: its exit status goes into the message
\* only; its output decides between the EULA attempts and the mount error
DmgAttach3 ==
    /\ dmg.at = "attach3"
    /\ \E ok \in BOOLEAN, eula \in BOOLEAN :
           dmg' = [dmg EXCEPT !.tried = Append(@, 3),
                              !.attachedBy = IF ok THEN @ \cup {3} ELSE @,
                              !.where = IF ok THEN "volume" ELSE @,
                              !.at = IF eula THEN "attach4" ELSE "returned",
                              !.result = IF eula THEN @ ELSE "err_mount"]
    /\ DmgFrame

\* echo 'Y' | hdiutil attach -mountpoint tempDir/mnt succeeds
DmgAttach4Ok ==
    /\ dmg.at = "attach4"
    /\ dmg' = [dmg EXCEPT !.at = "verify", !.tried = Append(@, 4),
                          !.attachedBy = @ \cup {4},
                          !.where = IF @ = "none" THEN "mnt" ELSE @]
    /\ DmgFrame

DmgAttach4Fail ==
    /\ dmg.at = "attach4"
    /\ dmg' = [dmg EXCEPT !.at = "attach5", !.tried = Append(@, 4)]
    /\ DmgFrame

\* echo 'Y' | hdiutil attach without a mount point succeeds
DmgAttach5Ok ==
    /\ dmg.at = "attach5"
    /\ dmg' = [dmg EXCEPT !.at = "resolve5", !.tried = Append(@, 5),
                          !.attachedBy = @ \cup {5}, !.where = "volume"]
    /\ DmgFrame

\* the last attempt failed too: "failed to mount DMG"
DmgAttach5Fail ==
    /\ dmg.at = "attach5"
    /\ dmg' = [dmg EXCEPT !.at = "returned", !.tried = Append(@, 5),
                          !.result = "err_mount"]
    /\ DmgFrame

\* method 5 succeeded: a /Volumes/ line is taken unless it looks like a
\* system volume; otherwise the most recent volume that is no system volume
DmgResolve5 ==
    /\ dmg.at = "resolve5"
    /\ \E printed \in BOOLEAN, g \in GlobChoices(dmg.volName) :
           /\ (printed /\ dmg.volName = "plain") \/ g # "nothing"
           /\ dmg' = [dmg EXCEPT !.at = "verify",
                                 !.mountPoint = IF printed /\ dmg.volName = "plain"
                                                THEN "volume" ELSE g]
    /\ DmgFrame

\* "could not determine mount point after EULA acceptance"
DmgResolve5Fail ==
    /\ dmg.at = "resolve5"
    /\ "nothing" \in GlobChoices(dmg.volName)
    /\ dmg' = [dmg EXCEPT !.at = "returned", !.result = "err_point"]
    /\ DmgFrame

\* verifyMount: os.Stat(mountPoint) fails, "mount point not accessible"
DmgVerifyFail ==
    /\ dmg.at = "verify"
    /\ dmg' = [dmg EXCEPT !.at = "returned", !.result = "err_access"]
    /\ DmgFrame

\* verifyMount passes and the detach of mountPoint is deferred
DmgVerifyOk ==
    /\ dmg.at = "verify"
    /\ dmg' = [dmg EXCEPT !.at = "classify", !.deferred = TRUE]
    /\ DmgFrame

\* the contents are classified and installed or copied, or an error is
\* returned; the deferred hdiutil detach mountPoint -force runs on the way out
DmgClassify ==
    /\ dmg.at = "classify"
    /\ \E r \in {"ok", "err_content"} :
           dmg' = [dmg EXCEPT !.at = "returned", !.result = r, !.detached = dmg.mountPoint]
    /\ DmgFrame

DmgInit ==
    /\ MainIdle
    /\ EntryIdle
    /\ dl = [at |-> "off"]
    /\ dmg \in DmgCalls
    /\ csv = [at |-> "off"]
    /\ trk = [at |-> "off"]
    /\ santa = [at |-> "off"]
    /\ sig = [at |-> "off"]
    /\ hist = [at |-> "off"]

DmgNext ==
    \/ DmgStatFail
    \/ DmgPrepare
    \/ DmgAttach1Ok
    \/ DmgAttach1Fail
    \/ DmgResolve1
    \/ DmgAttach2Ok
    \/ DmgAttach2Fail
    \/ DmgResolve2
    \/ DmgResolve2Fail
    \/ DmgAttach3
    \/ DmgAttach4Ok
    \/ DmgAttach4Fail
    \/ DmgAttach5Ok
    \/ DmgAttach5Fail
    \/ DmgResolve5
    \/ DmgResolve5Fail
    \/ DmgVerifyFail
    \/ DmgVerifyOk
    \/ DmgClassify

\* one call of installFromDMG
DmgSpec == DmgInit /\ [][DmgNext]_vars

(* ------------------------ generateContinuousData ------------------------ *)
\* calendar days are numbered; a date string compares as its day number does
MaxDay == 4
MaxCount == 2
MaxCommits == 3

\* what getGitHubCommits hands over: at most one commit per date, sorted by
\* date; the app count of a commit may be 0
CommitLists ==
    {cs \in UNION {[1..n -> [date : 1..MaxDay, count : 0..MaxCount]] : n \in 0..MaxCommits} :
        \A i \in 1..(Len(cs) - 1) : cs[i].date < cs[i + 1].date}

\* the map commitCounts: whether a date has a commit, and its count
HasCommit(cs, d) == \E i \in 1..Len(cs) : cs[i].date = d

CommitCounts(cs, d) ==
    LET i == CHOOSE j \in 1..Len(cs) :
                 cs[j].date = d /\ \A k \in (j + 1)..Len(cs) : cs[k].date # d
    IN  cs[i].count

SkipDayNever(currentCount, lastKnownCount) == FALSE

\* the test that makes the loop go on to the next day without writing a row
SkipDay(currentCount, lastKnownCount) == currentCount = 0 /\ lastKnownCount = 0

CsvCalls ==
    [at : {"call"}, commits : CommitLists, today : 1..MaxDay, endDate : {0},
     currentDate : {0}, currentCount : {0}, lastKnownCount : {0},
     lastWrittenCount : {0}, rows : {<<>>}, result : {""}]

CsvFrame == UNCHANGED <<mainVars, entryVars, dl, dmg, trk, santa, sig, hist, tempDirThere>>

\* "no commits provided"
CsvNoCommits ==
    /\ csv.at = "call"
    /\ csv.commits = <<>>
    /\ csv' = [csv EXCEPT !.at = "returned", !.result = "err"]
    /\ CsvFrame

\* the output directory or the file cannot be created
CsvCreateFail ==
    /\ csv.at = "call"
    /\ csv.commits # <<>>
    /\ csv' = [csv EXCEPT !.at = "returned", !.result = "err"]
    /\ CsvFrame

\* the range is fixed (today ends it when it is later than the last commit),
\* the file is created and the header written
CsvBegin ==
    /\ csv.at = "call"
    /\ csv.commits # <<>>
    /\ LET lastDate == csv.commits[Len(csv.commits)].date
       IN  csv' = [csv EXCEPT !.at = "loop",
                              !.endDate = IF csv.today > lastDate THEN csv.today ELSE lastDate,
                              !.currentDate = csv.commits[1].date]
    /\ CsvFrame

\* the counts of the day at hand, after the look-up in commitCounts
CsvCurrent ==
    IF HasCommit(csv.commits, csv.currentDate)
    THEN CommitCounts(csv.commits, csv.currentDate) ELSE csv.currentCount

CsvLastKnown ==
    IF HasCommit(csv.commits, csv.currentDate)
    THEN CommitCounts(csv.commits, csv.currentDate) ELSE csv.lastKnownCount

\* one pass of the loop that ends in continue: no row for this day
CsvDaySkip ==
    /\ csv.at = "loop"
    /\ csv.currentDate <= csv.endDate
    /\ SkipDay(CsvCurrent, CsvLastKnown)
    /\ csv' = [csv EXCEPT !.currentDate = @ + 1, !.currentCount = CsvCurrent,
                          !.lastKnownCount = CsvLastKnown]
    /\ CsvFrame

\* one pass of the loop that writes the row of the day (the mac_count and
\* windows_count columns are carried like app_count and are left out)
CsvDayRow ==
    /\ csv.at = "loop"
    /\ csv.currentDate <= csv.endDate
    /\ ~SkipDay(CsvCurrent, CsvLastKnown)
    /\ LET displayCount == IF CsvCurrent > 0 THEN CsvCurrent ELSE CsvLastKnown
           added == IF csv.lastWrittenCount = 0 THEN displayCount
                    ELSE IF displayCount - csv.lastWrittenCount < 0 THEN 0
                    ELSE displayCount - csv.lastWrittenCount
       IN  csv' = [csv EXCEPT
                     !.rows = Append(@, [date |-> csv.currentDate,
                                         app_count |-> displayCount,
                                         apps_added_since_previous |-> added]),
                     !.lastWrittenCount = IF displayCount > @ THEN displayCount ELSE @,
                     !.currentCount = IF HasCommit(csv.commits, csv.currentDate)
                                      THEN CsvCurrent ELSE 0,
                     !.lastKnownCount = CsvLastKnown,
                     !.currentDate = @ + 1]
    /\ CsvFrame

\* currentDate is after endDate: the loop ends and nil is returned
CsvReturn ==
    /\ csv.at = "loop"
    /\ csv.currentDate > csv.endDate
    /\ csv' = [csv EXCEPT !.at = "returned", !.result = "ok"]
    /\ CsvFrame

CsvInit ==
    /\ MainIdle
    /\ EntryIdle
    /\ dl = [at |-> "off"]
    /\ dmg = [at |-> "off"]
    /\ csv \in CsvCalls
    /\ trk = [at |-> "off"]
    /\ santa = [at |-> "off"]
    /\ sig = [at |-> "off"]
    /\ hist = [at |-> "off"]

CsvNext ==
    \/ CsvNoCommits
    \/ CsvCreateFail
    \/ CsvBegin
    \/ CsvDaySkip
    \/ CsvDayRow
    \/ CsvReturn

\* one call of generateContinuousData
CsvSpec == CsvInit /\ [][CsvNext]_vars

(* --------------- trackAppVersions and trackVersionChanges ---------------- *)
TrkSlugs == {"a", "b"}

\* a version string; "" is what an app gets whose version fetch failed
TrkVersions == {"", "1", "2"}

\* the source keeps the last 1000 changes; the model keeps the last few
HistoryLimit == 3

\* the Apps of a versions file, as the maps oldMap and newMap hold them
Snapshots == UNION {[S -> TrkVersions] : S \in SUBSET TrkSlugs}

\* the changes a history file holds before the call: entries of earlier runs
EarlierChange == [slug |-> "a", oldVersion |-> "", newVersion |-> "1", date |-> 0]

Histories == UNION {[1..n -> {EarlierChange}] : n \in 0..HistoryLimit}

\* the timestamp now of the call
Now == 1

\* found says that there are existing apps to compare with (old is not nil)
VersionsEqual(found, old, new) ==
    /\ found
    /\ DOMAIN old = DOMAIN new
    /\ \A slug \in DOMAIN new : old[slug] = new[slug]

IsChangeAnyDifference(old, new, slug) ==
    slug \notin DOMAIN old \/ old[slug] # new[slug]

\* the two branches of the detection loop that append a change
IsChange(old, new, slug) ==
    \/ /\ slug \in DOMAIN old
       /\ old[slug] # ""
       /\ new[slug] # ""
       /\ old[slug] # new[slug]
    \/ /\ slug \notin DOMAIN old
       /\ new[slug] # ""

\* the change appended for a slug
ChangeFor(old, new, slug) ==
    [slug |-> slug,
     oldVersion |-> IF slug \in DOMAIN old THEN old[slug] ELSE "",
     newVersion |-> new[slug],
     date |-> Now]

\* the orders in which ranging over newMap can meet the slugs of a set
Orders(S) ==
    {o \in [1..Cardinality(S) -> S] : \A i, j \in 1..Cardinality(S) : o[i] = o[j] => i = j}

\* history.Changes[len(history.Changes)-1000:]
KeepLast(h) ==
    IF Len(h) > HistoryLimit THEN SubSeq(h, Len(h) - HistoryLimit + 1, Len(h)) ELSE h

\* a call of trackAppVersions: the versions file and the history file on
\* disk, and the apps and versions the fetches are going to deliver
NoApps == [slug \in {} |-> ""]

TrkCalls ==
    {c \in [at : {"fetch"}, fileThere : BOOLEAN, versionsFile : Snapshots,
            historyFile : Histories, found : {FALSE}, existing : {NoApps},
            versions : Snapshots, history : {<<>>}, tracked : {"no"}, result : {""}] :
        ~c.fileThere => c.versionsFile = NoApps}

TrkFrame == UNCHANGED <<mainVars, entryVars, dl, dmg, csv, santa, sig, hist, tempDirThere>>

\* apps.json cannot be fetched, read or parsed
TrkFetchFail ==
    /\ trk.at = "fetch"
    /\ trk' = [trk EXCEPT !.at = "returned", !.result = "err"]
    /\ TrkFrame

\* the versions are fetched app by app and the existing file is loaded
TrkFetch ==
    /\ trk.at = "fetch"
    /\ trk' = [trk EXCEPT !.at = "save", !.found = trk.fileThere,
                          !.existing = trk.versionsFile]
    /\ TrkFrame

\* the existing file is there but cannot be read or parsed: the error is
\* dropped and the call goes on as if there were none
TrkFetchUnreadable ==
    /\ trk.at = "fetch"
    /\ trk.fileThere
    /\ trk' = [trk EXCEPT !.at = "save"]
    /\ TrkFrame

\* "failed to write versions file"
TrkSaveFail ==
    /\ trk.at = "save"
    /\ trk' = [trk EXCEPT !.at = "returned", !.result = "err"]
    /\ TrkFrame

\* the new versions are written; nothing changed, or there was no file to
\* compare with: the call returns
TrkSaveOnly ==
    /\ trk.at = "save"
    /\ VersionsEqual(trk.found, trk.existing, trk.versions) \/ ~trk.found
    /\ trk' = [trk EXCEPT !.at = "returned", !.result = "ok", !.fileThere = TRUE,
                          !.versionsFile = trk.versions]
    /\ TrkFrame

\* the new versions are written and trackVersionChanges is called
TrkSaveChanged ==
    /\ trk.at = "save"
    /\ ~VersionsEqual(trk.found, trk.existing, trk.versions)
    /\ trk.found
    /\ trk' = [trk EXCEPT !.at = "load", !.versionsFile = trk.versions]
    /\ TrkFrame

\* loadVersionHistory: the changes of the file, or none when it fails
TrkLoadHistory ==
    /\ trk.at = "load"
    /\ \E readable \in BOOLEAN :
           trk' = [trk EXCEPT !.at = "detect",
                              !.history = IF readable THEN trk.historyFile ELSE <<>>]
    /\ TrkFrame

\* the detection loop over newMap, then the cut to the last changes
TrkDetect ==
    /\ trk.at = "detect"
    /\ \E o \in Orders({slug \in DOMAIN trk.versions :
                           IsChange(trk.existing, trk.versions, slug)}) :
           trk' = [trk EXCEPT
                     !.at = "write",
                     !.history = KeepLast(@ \o [i \in 1..Len(o) |->
                                     ChangeFor(trk.existing, trk.versions, o[i])])]
    /\ TrkFrame

\* the history cannot be written: trackAppVersions prints a warning
TrkWriteFail ==
    /\ trk.at = "write"
    /\ trk' = [trk EXCEPT !.at = "returned", !.result = "ok", !.tracked = "failed"]
    /\ TrkFrame

TrkWriteOk ==
    /\ trk.at = "write"
    /\ trk' = [trk EXCEPT !.at = "returned", !.result = "ok", !.tracked = "written",
                          !.historyFile = trk.history]
    /\ TrkFrame

TrkInit ==
    /\ MainIdle
    /\ EntryIdle
    /\ dl = [at |-> "off"]
    /\ dmg = [at |-> "off"]
    /\ csv = [at |-> "off"]
    /\ trk \in TrkCalls
    /\ santa = [at |-> "off"]
    /\ sig = [at |-> "off"]
    /\ hist = [at |-> "off"]

TrkNext ==
    \/ TrkFetchFail
    \/ TrkFetch
    \/ TrkFetchUnreadable
    \/ TrkSaveFail
    \/ TrkSaveOnly
    \/ TrkSaveChanged
    \/ TrkLoadHistory
    \/ TrkDetect
    \/ TrkWriteFail
    \/ TrkWriteOk

\* one call of trackAppVersions
TrkSpec == TrkInit /\ [][TrkNext]_vars

(* ------------------------------ runSantactl ----------------------------- *)
\* maxRetries := 3
MaxRetries == 3

\* what santactl fileinfo --json can write to stdout, trimmed: nothing, null,
\* an empty list, something that is no list, or a list whose first record
\* has only a Rule, or signing fields
JsonOutputs == {"", "null", "[]", "invalid", "rule", "sha"}

\* the test "Got valid data": a list that parses and is not empty
ValidData(out) == out \in {"rule", "sha"}

WantsTextNever(out) == FALSE

\* the test that sends the loop into free-text mode
WantsText(out) == out = "[]"

\* pathsToTry: the bundle first when the executable inside it was found
PathsToTry(s) ==
    IF s.bundle /\ s.execFound THEN <<"app", "exec">>
    ELSE IF s.bundle THEN <<"app">> ELSE <<"file">>

\* the outer loop moves on: the next attempt, or out of the loop after the last
NextAttempt(s) ==
    IF s.attempt >= MaxRetries THEN [s EXCEPT !.at = "final"]
    ELSE [s EXCEPT !.attempt = @ + 1, !.pathIdx = 1, !.at = "json"]

\* the inner loop moves on: the next path, or the end of the attempt
NextPath(s) ==
    IF s.pathIdx < Len(PathsToTry(s)) THEN [s EXCEPT !.pathIdx = @ + 1, !.at = "json"]
    ELSE NextAttempt(s)

\* one more invocation of the tool in the attempt at hand
Invoked(s) == [s EXCEPT !.perRound[s.attempt] = @ + 1]

\* return bytes, nil
ReturnBytes(s, out) == [s EXCEPT !.at = "returned", !.result = "bytes", !.returned = out]

AfterLoopNoError(s) == ReturnBytes(s, s.output)

\* the end of the function: an error when the last structured invocation
\* exited with one, else the bytes it wrote, whatever they are
AfterLoop(s) ==
    IF s.err THEN [s EXCEPT !.at = "returned", !.result = "error"]
    ELSE ReturnBytes(s, s.output)

\* a call of runSantactl(appPath): appPath is a bundle or not, and inside a
\* bundle the executable is found or not
SantaCalls ==
    {c \in [at : {"start"}, bundle : BOOLEAN, execFound : BOOLEAN, attempt : {1},
            pathIdx : {1}, output : {""}, err : {FALSE},
            perRound : {[r \in 1..MaxRetries |-> 0]}, jsonCalls : {0}, textCalls : {0},
            finalText : {FALSE}, sawEmptyList : {FALSE}, result : {""},
            returned : {"none"}] :
        c.execFound => c.bundle}

SantaFrame == UNCHANGED <<mainVars, entryVars, dl, dmg, csv, trk, sig, hist, tempDirThere>>

\* "target path does not exist"
SantaNoTarget ==
    /\ santa.at = "start"
    /\ santa' = [santa EXCEPT !.at = "returned", !.result = "error"]
    /\ SantaFrame

\* the target is resolved, the diagnostics are printed, the loop is entered
SantaPrepare ==
    /\ santa.at = "start"
    /\ santa' = [santa EXCEPT !.at = "json"]
    /\ SantaFrame

\* santactl fileinfo --json pathToTry, and what the loop does with the output
SantaJson ==
    /\ santa.at = "json"
    /\ \E out \in JsonOutputs, failed \in BOOLEAN :
           LET s == [Invoked(santa) EXCEPT !.output = out, !.err = failed,
                                           !.jsonCalls = @ + 1,
                                           !.sawEmptyList = @ \/ out = "[]"]
               path == PathsToTry(santa)[santa.pathIdx]
           IN  santa' =
                 IF ValidData(out) THEN ReturnBytes(s, out)
                 ELSE IF out = "[]" /\ path = "app" /\ s.attempt >= 2
                      THEN [s EXCEPT !.at = "exec"]
                 ELSE IF WantsText(out) THEN [s EXCEPT !.at = "text"]
                 ELSE NextPath(s)
    /\ SantaFrame

\* the empty list of a bundle on a retry: the executable is looked up in
\* Contents/MacOS and, when there is one, inspected in structured mode
SantaExec ==
    /\ santa.at = "exec"
    /\ \E found \in BOOLEAN, ok \in BOOLEAN, out2 \in JsonOutputs :
           LET s == IF found THEN Invoked(santa) ELSE santa
           IN  santa' =
                 IF found /\ ok /\ ValidData(out2) THEN ReturnBytes(s, out2)
                 ELSE IF WantsText(santa.output) THEN [s EXCEPT !.at = "text"]
                 ELSE NextPath(s)
    /\ SantaFrame

\* santactl fileinfo pathToTry in free-text mode; its data are returned when
\* they hold a SHA-256 or a CDHash, else the loop waits and retries, or goes
\* on to the next path in the last attempt
SantaText ==
    /\ santa.at = "text"
    /\ \E ok \in BOOLEAN, hash \in BOOLEAN :
           LET s == [Invoked(santa) EXCEPT !.textCalls = @ + 1]
           IN  santa' =
                 IF ok /\ hash THEN ReturnBytes(s, "sha")
                 ELSE IF s.attempt < MaxRetries THEN NextAttempt(s)
                 ELSE NextPath(s)
    /\ SantaFrame

\* after the loop: the last structured output was the empty list and appPath
\* is a bundle, so free-text mode is tried on appPath one last time
SantaFinalText ==
    /\ santa.at = "final"
    /\ santa.output = "[]"
    /\ santa.bundle
    /\ \E ok \in BOOLEAN, hash \in BOOLEAN :
           LET s == [santa EXCEPT !.textCalls = @ + 1, !.finalText = TRUE]
           IN  santa' = IF ok /\ hash THEN ReturnBytes(s, "sha") ELSE AfterLoop(s)
    /\ SantaFrame

\* after the loop, without the final fallback
SantaFinish ==
    /\ santa.at = "final"
    /\ ~(santa.output = "[]" /\ santa.bundle)
    /\ santa' = AfterLoop(santa)
    /\ SantaFrame

SantaInit ==
    /\ MainIdle
    /\ EntryIdle
    /\ dl = [at |-> "off"]
    /\ dmg = [at |-> "off"]
    /\ csv = [at |-> "off"]
    /\ trk = [at |-> "off"]
    /\ santa \in SantaCalls
    /\ sig = [at |-> "off"]
    /\ hist = [at |-> "off"]

SantaNext ==
    \/ SantaNoTarget
    \/ SantaPrepare
    \/ SantaJson
    \/ SantaExec
    \/ SantaText
    \/ SantaFinalText
    \/ SantaFinish

\* one call of runSantactl
SantaSpec == SantaInit /\ [][SantaNext]_vars

\* every invocation of the tool returns, so the call keeps taking steps
SantaLiveSpec == SantaSpec /\ WF_vars(SantaNext)

(* ------------------------ getAuthenticodeSignature ----------------------- *)
\* what the PowerShell script run can come to: a failed run, no output, no
\* line with a |, a line with fewer than four parts, or publisher, issuer,
\* serial number and thumbprint of the signer certificate
PowerShellOutcomes == {"fail", "empty", "nodata", "short", "fields"}

\* what signtool verify can come to: no signtool.exe, a failed run, or output
\* with neither a Subject: nor a Thumbprint: line, with one of them, or both
SigntoolOutcomes == {"notfound", "fail", "none", "subject", "thumb", "both"}

\* what certutil -verify can come to
CertutilOutcomes == {"fail", "none", "subject", "thumb", "both"}

\* getSignatureViaPowerShell returns a nil error
PowerShellOk(c) == c = "fields"

SigntoolOkWithThumbprint(c) == c \in {"subject", "thumb", "both"}

\* getSignatureViaSigntool returns a nil error: sigInfo.Publisher is set
SigntoolOk(c) == c \in {"subject", "both"}

\* getSignatureViaCertutil returns a nil error: Publisher or Thumbprint is set
CertutilOk(c) == c \in {"subject", "thumb", "both"}

SigCalls ==
    [at : {"powershell"}, tried : {<<>>}, seen : {<<>>}, result : {""},
     from : {"none"}, named : {{}}]

SigFrame == UNCHANGED <<mainVars, entryVars, dl, dmg, csv, trk, santa, hist, tempDirThere>>

\* one tool has run: its result is returned, or the next tool is tried, or
\* the combined error is returned after the last
SigStep(tool, c, ok, next) ==
    sig' = [sig EXCEPT
              !.tried = Append(@, tool),
              !.seen = Append(@, c),
              !.at = IF ok \/ next = "none" THEN "returned" ELSE next,
              !.result = IF ok THEN "ok" ELSE IF next = "none" THEN "error" ELSE @,
              !.from = IF ok THEN tool ELSE @,
              !.named = IF ~ok /\ next = "none"
                        THEN {"powershell", "signtool", "certutil"} ELSE @]

SigPowerShell ==
    /\ sig.at = "powershell"
    /\ \E c \in PowerShellOutcomes : SigStep("powershell", c, PowerShellOk(c), "signtool")
    /\ SigFrame

SigSigntool ==
    /\ sig.at = "signtool"
    /\ \E c \in SigntoolOutcomes : SigStep("signtool", c, SigntoolOk(c), "certutil")
    /\ SigFrame

SigCertutil ==
    /\ sig.at = "certutil"
    /\ \E c \in CertutilOutcomes : SigStep("certutil", c, CertutilOk(c), "none")
    /\ SigFrame

SigInit ==
    /\ MainIdle
    /\ EntryIdle
    /\ dl = [at |-> "off"]
    /\ dmg = [at |-> "off"]
    /\ csv = [at |-> "off"]
    /\ trk = [at |-> "off"]
    /\ santa = [at |-> "off"]
    /\ sig \in SigCalls
    /\ hist = [at |-> "off"]

SigNext ==
    \/ SigPowerShell
    \/ SigSigntool
    \/ SigCertutil

\* one call of getAuthenticodeSignature
SigSpec == SigInit /\ [][SigNext]_vars

(* ------------- build_history and trackVersionChanges, run after run ------ *)
\* the days a change can be dated with, and the most changes one run appends
LastDay == 3
MaxAdded == 2

\* the changes one run of build_history appends: the commits are processed
\* oldest first, every change carries the date of its commit, and no commit
\* is dated after the run
AddedByCommits(now) ==
    {a \in UNION {[1..n -> 1..now] : n \in 0..MaxAdded} :
        \A i, j \in DOMAIN a : i <= j => a[i] <= a[j]}

\* the changes one call of trackVersionChanges appends: all dated now
AddedNow(now) == {[i \in 1..n |-> now] : n \in 0..MaxAdded}

\* sort.Slice with Changes[i].Date > Changes[j].Date: newest first
RECURSIVE InsertNewestFirst(_, _)
InsertNewestFirst(d, l) ==
    IF l = <<>> THEN <<d>>
    ELSE IF d > Head(l) THEN <<d>> \o l
    ELSE <<Head(l)>> \o InsertNewestFirst(d, Tail(l))

RECURSIVE SortNewestFirst(_)
SortNewestFirst(l) ==
    IF l = <<>> THEN <<>> ELSE InsertNewestFirst(Head(l), SortNewestFirst(Tail(l)))

\* history.Changes[:1000]
KeepFirst(h) == IF Len(h) > HistoryLimit THEN SubSeq(h, 1, HistoryLimit) ELSE h

\* what history.Changes[:1000] leaves out
CutAfterFirst(h) ==
    IF Len(h) > HistoryLimit THEN SubSeq(h, HistoryLimit + 1, Len(h)) ELSE <<>>

\* what history.Changes[len(history.Changes)-1000:] leaves out
CutBeforeLast(h) ==
    IF Len(h) > HistoryLimit THEN SubSeq(h, 1, Len(h) - HistoryLimit) ELSE <<>>

HistFrame == UNCHANGED <<mainVars, entryVars, dl, dmg, csv, trk, santa, sig, tempDirThere>>

\* build_history: history, _ := loadVersionHistory() with a file that is
\* absent or can be read
HistBuildLoad ==
    /\ hist.at = "idle"
    /\ hist' = [hist EXCEPT !.at = "build_scan", !.changes = hist.file]
    /\ HistFrame

\* build_history with a file that cannot be read or parsed: history is nil
\* and the run ends in a panic at its first use; the file stays as it is
HistBuildPanic ==
    /\ hist.at = "idle"
    /\ hist.fileThere
    /\ hist' = [hist EXCEPT !.last = "panic"]
    /\ HistFrame

\* the loop over the commits appends the changes found between them
HistBuildScan ==
    /\ hist.at = "build_scan"
    /\ \E a \in AddedByCommits(hist.now) :
           hist' = [hist EXCEPT !.at = "build_cut", !.changes = hist.changes \o a]
    /\ HistFrame

\* the sort, newest first, and the cut to the first 1000
HistBuildCut ==
    /\ hist.at = "build_cut"
    /\ hist' = [hist EXCEPT !.at = "write",
                            !.changes = KeepFirst(SortNewestFirst(hist.changes)),
                            !.cut = CutAfterFirst(SortNewestFirst(hist.changes))]
    /\ HistFrame

\* trackVersionChanges: the history of the file, or an empty one when the
\* file cannot be read
HistTrackLoad ==
    /\ hist.at = "idle"
    /\ \E readable \in BOOLEAN :
           hist' = [hist EXCEPT !.at = "track_detect",
                                !.changes = IF readable THEN hist.file ELSE <<>>]
    /\ HistFrame

\* the changes of this call are appended, dated now
HistTrackDetect ==
    /\ hist.at = "track_detect"
    /\ \E a \in AddedNow(hist.now) :
           hist' = [hist EXCEPT !.at = "track_cut", !.changes = hist.changes \o a]
    /\ HistFrame

\* the cut to the last 1000
HistTrackCut ==
    /\ hist.at = "track_cut"
    /\ hist' = [hist EXCEPT !.at = "write",
                            !.changes = KeepLast(hist.changes),
                            !.cut = CutBeforeLast(hist.changes)]
    /\ HistFrame

\* os.WriteFile(versionHistoryJSON, ...) of either program
HistWriteOk ==
    /\ hist.at = "write"
    /\ hist' = [hist EXCEPT !.at = "idle", !.file = hist.changes, !.fileThere = TRUE,
                            !.dropped = hist.cut, !.changes = <<>>, !.cut = <<>>,
                            !.last = "written"]
    /\ HistFrame

\* the write fails: the file keeps what it held
HistWriteFail ==
    /\ hist.at = "write"
    /\ hist' = [hist EXCEPT !.at = "idle", !.changes = <<>>, !.cut = <<>>,
                            !.last = "failed"]
    /\ HistFrame

\* time passes between two runs
HistTick ==
    /\ hist.at = "idle"
    /\ hist.now < LastDay
    /\ hist' = [hist EXCEPT !.now = hist.now + 1]
    /\ HistFrame

HistInit ==
    /\ MainIdle
    /\ EntryIdle
    /\ dl = [at |-> "off"]
    /\ dmg = [at |-> "off"]
    /\ csv = [at |-> "off"]
    /\ trk = [at |-> "off"]
    /\ santa = [at |-> "off"]
    /\ sig = [at |-> "off"]
    /\ hist = [at |-> "idle", file |-> <<>>, fileThere |-> FALSE, now |-> 1,
               changes |-> <<>>, cut |-> <<>>, dropped |-> <<>>, last |-> ""]

HistNext ==
    \/ HistBuildLoad
    \/ HistBuildPanic
    \/ HistBuildScan
    \/ HistBuildCut
    \/ HistTrackLoad
    \/ HistTrackDetect
    \/ HistTrackCut
    \/ HistWriteOk
    \/ HistWriteFail
    \/ HistTick

\* runs of build_history and of trackVersionChanges in any order
HistSpec == HistInit /\ [][HistNext]_vars

(* ------------------- reading the result store -------------------------- *)
FileSlugs(f) == {f.apps[i].slug : i \in 1..Len(f.apps)}

HasRecord(f, s) == f.status = "ok" /\ s \in FileSlugs(f)

RecordOf(f, s) == f.apps[CHOOSE i \in 1..Len(f.apps) : f.apps[i].slug = s]

CatalogSlugs == {catalog[i].slug : i \in 1..Len(catalog)}

\* the slugs saveSecurityInfo treats as still valid: catalog entries of the
\* collector's own platform
ValidSlugs ==
    {catalog[i].slug : i \in {j \in 1..Len(catalog) : catalog[j].platform = collector}}

\* collectedSecurity as it stands once the first k entries of the run are
\* finished with the outcomes recorded for them
RECURSIVE CollectedAfter(_)
CollectedAfter(k) ==
    IF k = 0 THEN EmptyMap
    ELSE LET before == CollectedAfter(k - 1)
             app == macApps[k]
         IN IF outcomes[k] = "ok"
            THEN Put(before, app.slug, SecurityRecord(app.slug, app.version, run))
            ELSE IF app.slug \in DOMAIN existingMap
                 THEN Put(before, app.slug, existingMap[app.slug])
                 ELSE before

\* the set of records the merge rule asks for
ReferenceMerge(existing, fresh, valid) ==
    {fresh[s] : s \in DOMAIN fresh}
    \cup {existing[s] : s \in (DOMAIN existing \cap valid) \ DOMAIN fresh}

StrictlyAscending(l) ==
    \A i, j \in 1..Len(l) : i < j => l[i].slug < l[j].slug

(* ------------------------------ claims --------------------------------- *)

\* C1  Carry-forward: for every stale entry whose collection failed in this
\* run and whose slug had a record when the run started, every complete
\* document the result file holds from then on, in particular the one left
\* when the run has ended, has for that slug exactly the pre-run record.
C1_CarryForward ==
    \A i \in 1..Len(outcomes) :
        (outcomes[i] = "fail" /\ HasRecord(preFile, macApps[i].slug) /\ file.status = "ok")
            => /\ HasRecord(file, macApps[i].slug)
               /\ RecordOf(file, macApps[i].slug) = RecordOf(preFile, macApps[i].slug)

\* C1 witness: a run returned after a failed entry that had a prior record,
\* and the file written by the run carries that record.
C1_Witness ==
    /\ pc = "exit_done"
    /\ sigCount = -1
    /\ file # preFile
    /\ \E i \in 1..Len(outcomes) :
           /\ outcomes[i] = "fail"
           /\ HasRecord(preFile, macApps[i].slug)
           /\ HasRecord(file, macApps[i].slug)

\* C2  Interrupted run, as claimed: when the handler has exited the process
\* after a signal that arrived with k < n entries finished, the file is the
\* merge of the outcomes of exactly those k entries with the still-valid
\* prior records, and at most the in-flight entry finished after the signal.
C2_InterruptedRun ==
    (pc = "exit_sig" /\ sigCount < Len(macApps))
        => /\ file \in SaveContents(existingMap, DOMAIN CollectedAfter(sigCount),
                                    CollectedAfter(sigCount), catalog, collector, run)
           /\ Len(outcomes) <= sigCount + 1

\* C3  Atomic write, as claimed: the result file never holds a partially
\* written document.
C3_NeverPartial == file.status = "ok"

\* C4  Removal, as claimed: when a run has returned, no slug that had a
\* record before the run and is absent from the catalog has a record.
C4_Removal ==
    RunReturned =>
        \A s \in FileSlugs(preFile) \ CatalogSlugs : ~HasRecord(file, s)

\* C5  No loss of valid records, as claimed: when a run of either collector
\* has returned, every prior record whose slug is in the catalog is still
\* there, unchanged or replaced by the record collected in this run.
C5_KeepsValid ==
    RunReturned =>
        \A s \in FileSlugs(preFile) \cap CatalogSlugs :
            /\ HasRecord(file, s)
            /\ \/ RecordOf(file, s) = RecordOf(preFile, s)
               \/ /\ s \in DOMAIN collectedSecurity
                  /\ RecordOf(file, s) = collectedSecurity[s]

C8_RunCompletes ==
    (pc = "next" /\ idx = 1)
        ~> \/ sigCount # -1
           \/ (MainAtSave /\ IsFinal /\ Len(outcomes) = Len(macApps))

\* C8 witness: the final save is reached after a failed first entry of two.
C8_Witness ==
    /\ pc = "next"
    /\ IsFinal
    /\ Len(macApps) = 2
    /\ outcomes[1] = "fail"
    /\ sigCount = -1

\* C9  Fatal write failures, as claimed: once any save has failed the
\* process is terminated with exit status 1.
C9_EverySaveFatal ==
    lastSave \in {"entry_err", "final_err", "handler_err"}
        => (pc \in ExitPcs /\ exitCode = 1)

\* C9 as amended: a failed final save and a failed save of the interruption
\* handler terminate the process with exit status 1.
C9_FinalAndHandlerFatal ==
    lastSave \in {"final_err", "handler_err"}
        => (pc \in ExitPcs /\ exitCode = 1)

\* C9 witness: the final save failed after both entry saves had succeeded.
C9_Witness ==
    /\ lastSave = "final_err"
    /\ Len(outcomes) = 2
    /\ exitCode = 1

\* C10  Idempotence, as claimed: a run of the same collector that follows a
\* full run that returned, whatever the outcomes of its entries, and that
\* returns itself, leaves the records of the file as it found them.
C10_Idempotent ==
    (run >= 2 /\ prevCollector = collector /\ prevRun \in {"clean", "failed"}
        /\ RunReturned)
        => (file.status = preFile.status /\ file.apps = preFile.apps)

\* C10 as amended: a run of the same collector that follows a full run which
\* returned with every stale entry collected finds nothing stale and never
\* touches the file.
C10_IdempotentAfterClean ==
    (run >= 2 /\ prevCollector = collector /\ prevRun = "clean")
        => (pc = "exit_nostale" /\ file = preFile)

\* C10 witness: the second run follows a first one that collected entries.
C10_Witness ==
    /\ run = 2
    /\ prevCollector = collector
    /\ prevRun = "clean"
    /\ pc = "exit_nostale"
    /\ \E i \in 1..Len(file.apps) : file.apps[i].lastUpdated = 1

\* the catalog entries a run has handed to collectSecurityInfoForApp so far
Downloaded ==
    {macApps[i] : i \in 1..(IF pc = "collect" THEN idx ELSE Len(outcomes))}

\* the delta rule in terms of the result file the run found
InDelta(app) ==
    /\ app.platform = collector
    /\ app.hasURL
    /\ \/ ~HasRecord(preFile, app.slug)
       \/ RecordOf(preFile, app.slug).version # app.version

EntryFinished == eidx >= 1 /\ Len(outcomes) = eidx

\* no strategy of the signing inspection produced signing data: the tool
\* failed or returned nothing usable, a Rule only or an object without any
\* signing field; on Windows all three signature methods failed
NoSigningData ==
    output \in {"toolerr", "empty", "invalid", "rule", "bare", "sigerr"}

\* the failure branch left the slug of the finished entry with its prior
\* record, or without any, in memory and in every complete document
CarriedForward ==
    LET s == macApps[eidx].slug
    IN /\ IF s \in DOMAIN existingMap
          THEN s \in DOMAIN collectedSecurity /\ collectedSecurity[s] = existingMap[s]
          ELSE s \notin DOMAIN collectedSecurity
       /\ file.status = "ok" =>
              IF HasRecord(preFile, s)
              THEN HasRecord(file, s) /\ RecordOf(file, s) = RecordOf(preFile, s)
              ELSE ~HasRecord(file, s)

\* C12  All inspection strategies exhausted, as claimed: on both collectors
\* an entry whose inspection produced no signing data is reported as failed,
\* its prior record is carried forward and the process goes on.
C12_ExhaustedFails ==
    (EntryFinished /\ NoSigningData) =>
        /\ outcomes[eidx] = "fail"
        /\ CarriedForward
        /\ pc \in ExitPcs => IsFinal

\* C12 as amended: on macOS an entry whose signing tool failed or returned
\* nothing usable, unparsable bytes or a Rule without signing fields is
\* reported as failed, its prior record is carried forward and the process
\* does not exit before the loop is through; on Windows an entry whose three
\* signature methods all failed is recorded as collected with its digest.
C12_EmptyResultFails ==
    /\ (EntryFinished /\ collector = "darwin"
            /\ output \in {"toolerr", "empty", "invalid", "rule"})
        => /\ outcomes[eidx] = "fail"
           /\ CarriedForward
           /\ pc \in ExitPcs => IsFinal
    /\ (EntryFinished /\ collector = "windows" /\ output = "sigerr")
        => /\ outcomes[eidx] = "ok"
           /\ collectedSecurity[macApps[eidx].slug].sha256 # ""
           /\ collectedSecurity[macApps[eidx].slug].lastUpdated = run

\* C12 witness: on macOS the first entry, which had a record, got an empty
\* result from the signing tool and failed, and the second entry has been
\* handed to collectSecurityInfoForApp.
C12_Witness ==
    /\ collector = "darwin"
    /\ eidx = 2
    /\ outcomes = <<"fail">>
    /\ HasRecord(preFile, macApps[1].slug)
    /\ HasRecord(file, macApps[1].slug)
    /\ file # preFile
    /\ epc = "parse"
    /\ output = "empty"

\* the records of the file that this run collected
FreshInFile ==
    IF file.status = "ok"
    THEN {file.apps[i] : i \in {j \in 1..Len(file.apps) : file.apps[j].lastUpdated = run}}
    ELSE {}

\* C13  Fresh records, as claimed: every record the run freshly added to the
\* file has the slug and the declared version of an entry collected in this
\* run and a non-empty sha256.
C13_FreshComplete ==
    (pc # "idle") =>
        \A r \in FreshInFile :
            /\ \E i \in 1..Len(outcomes) :
                   /\ outcomes[i] = "ok"
                   /\ macApps[i].slug = r.slug
                   /\ macApps[i].version = r.version
            /\ r.sha256 # ""

\* C13 as amended: every record the run freshly added to the file has the
\* slug and the declared version of an entry collected in this run; on
\* Windows its sha256 is not empty, on macOS its sha256 is the SHA-256 string
\* of the signing tool's first result and is empty when there was none.
C13_FreshMatchesEntry ==
    (pc # "idle") =>
        \A r \in FreshInFile :
            /\ \E i \in 1..Len(outcomes) :
                   /\ outcomes[i] = "ok"
                   /\ macApps[i].slug = r.slug
                   /\ macApps[i].version = r.version
                   /\ \E j \in 1..Len(catalog) :
                          catalog[j].slug = r.slug /\ catalog[j].version = r.version
            /\ collector = "windows" => r.sha256 # ""
            /\ (collector = "darwin" /\ EntryFinished /\ r.slug = macApps[eidx].slug)
                   => (r.sha256 # "" <=> output = "sha")

\* C13 witness: the file holds the fresh record of the second entry, whose
\* signing tool reported a SHA-256, next to the fresh record of the first.
C13_Witness ==
    /\ collector = "darwin"
    /\ EntryFinished
    /\ eidx = 2
    /\ output = "sha"
    /\ Cardinality(FreshInFile) = 2
    /\ \E r \in FreshInFile : r.slug = macApps[2].slug /\ r.sha256 # ""

\* downloadInstaller returned a path
DlReturnedFile == dl.at = "returned" /\ dl.err = ""

\* C14  Kind detection, as claimed: whenever the probe reports a kind other
\* than the one inferred from Content-Type and URL, the returned file is
\* labelled with the detected kind; package content fetched from a URL that
\* ends in .dmg is labelled .pkg.
C14_DetectedKindWins ==
    DlReturnedFile =>
        /\ (dl.actual \in {".pkg", ".dmg", ".zip"} /\ dl.actual # dl.ext)
               => dl.label = dl.actual
        /\ (dl.content = "xar" /\ dl.url = "x.dmg") => dl.label = ".pkg"

\* C14 as amended: the same whenever the rename to the detected kind
\* succeeded, and for package content whenever in addition the `file` command
\* ran; when the rename or the probe failed the file keeps the label inferred
\* from Content-Type and URL.
C14_DetectedKindWinsIfRenamed ==
    DlReturnedFile =>
        /\ (dl.actual \in {".pkg", ".dmg", ".zip"} /\ dl.actual # dl.ext
                /\ dl.renamed # "failed")
               => dl.label = dl.actual
        /\ (dl.content = "xar" /\ dl.url = "x.dmg"
                /\ dl.actual # "error" /\ dl.renamed # "failed")
               => dl.label = ".pkg"
        /\ (dl.actual = "error" \/ dl.renamed = "failed") => dl.label = dl.ext

\* C14 witness: package content from a URL ending in .dmg, served as a disk
\* image, has been renamed to .pkg.
C14_Witness ==
    /\ DlReturnedFile
    /\ dl.content = "xar"
    /\ dl.url = "x.dmg"
    /\ dl.ct = "application/x-apple-diskimage"
    /\ dl.ext = ".dmg"
    /\ dl.renamed = "yes"
    /\ dl.label = ".pkg"

\* C15  Scratch reset, as claimed: when an entry after the first is handed
\* to collectSecurityInfoForApp, tempDir holds nothing that an earlier entry
\* left, whether that entry succeeded or failed.
C15_ScratchReset ==
    (EntryPending /\ idx >= 2) => scratch = {}

\* C16  Uninstall, as claimed: once main has taken its branch for an entry
\* whose installer put an application into applicationsDir, uninstallApp has
\* been called for that entry.
C16_UninstallAlways ==
    (EntryFinished /\ placed) => uninstalled

\* the order the claim gives to the steps inside collectSecurityInfoForApp
StepOrder == <<"download", "install", "inspect", "uninstall">>

StepRank(st) == CHOOSE k \in 1..Len(StepOrder) : StepOrder[k] = st

\* the entry at position i of the run has a freshly collected record in memory
RecordedFresh(i) ==
    /\ macApps[i].slug \in DOMAIN collectedSecurity
    /\ collectedSecurity[macApps[i].slug].lastUpdated = run

\* C20  Per-entry state machine: the steps performed for an entry follow the
\* order download, install, inspect, uninstall; an entry has a freshly
\* collected record only once main has taken the success branch for it, and
\* then all four steps were performed and none returned an error; an entry
\* for which a step returned an error is reported as failed and has no
\* freshly collected record, in memory or in the file.
C20_StepOrder ==
    /\ \A i, j \in 1..Len(steps) : i < j => StepRank(steps[i]) < StepRank(steps[j])
    /\ \A i \in 1..Len(macApps) :
           RecordedFresh(i) => (i <= Len(outcomes) /\ outcomes[i] = "ok")
    /\ (EntryFinished /\ outcomes[eidx] = "ok")
           => (steps = StepOrder /\ failedAt = "none" /\ RecordedFresh(eidx))
    /\ (EntryFinished /\ failedAt # "none")
           => /\ outcomes[eidx] = "fail"
              /\ ~RecordedFresh(eidx)
              /\ \A r \in FreshInFile : r.slug # macApps[eidx].slug

\* C20 witness: after a first entry that failed at its install step the
\* second entry went through all four steps and was recorded.
C20_Witness ==
    /\ EntryFinished
    /\ eidx = 2
    /\ outcomes = <<"fail", "ok">>
    /\ steps = StepOrder
    /\ RecordedFresh(2)
    /\ ~RecordedFresh(1)

\* C17  Detach, as claimed: when installFromDMG has returned after an attach
\* that succeeded, the place the image was mounted at has been detached.
C17_DetachAlways ==
    (dmg.at = "returned" /\ dmg.attachedBy # {}) => dmg.detached = dmg.where

\* the days a finished call had to cover, and the dates of the rows it wrote
CsvRange == csv.commits[1].date .. csv.endDate

RowsOn(d) == Cardinality({i \in 1..Len(csv.rows) : csv.rows[i].date = d})

RowsAscending ==
    \A i \in 1..(Len(csv.rows) - 1) : csv.rows[i].date < csv.rows[i + 1].date

\* the count of the latest commit on or before day d, 0 when there is none
LatestCount(d) ==
    LET before == {i \in 1..Len(csv.commits) : csv.commits[i].date <= d}
    IN  IF before = {} THEN 0
        ELSE csv.commits[CHOOSE i \in before : \A j \in before : j <= i].count

TrkCompared == trk.at = "returned" /\ trk.result = "ok" /\ trk.found

\* the entries of this call for a slug in the history file
NewEntries(slug) ==
    Cardinality({i \in 1..Len(trk.historyFile) :
                    trk.historyFile[i].slug = slug /\ trk.historyFile[i].date = Now})

C21_MountErrorOnlyIfAllFailed ==
    dmg.at = "returned" =>
        /\ dmg.result = "err_mount" => dmg.attachedBy = {}
        /\ dmg.attachedBy # {} => dmg.deferred

\* C22  Mount location, as claimed: the location that is classified and
\* detached is never a volume whose name the system-volume heuristics match.
C22_NeverSystemVolume ==
    dmg.deferred => ~(dmg.mountPoint = "volume" /\ dmg.volName = "system")

\* C23  Rule without signing fields: an entry for which the first record of
\* the structured output had a Rule and none of SHA-256, CDHash, Signing ID
\* and Team ID is reported as failed and is not recorded as freshly
\* collected, in memory or in the file.
C23_RuleOnlyIsNoData ==
    (EntryFinished /\ collector = "darwin" /\ output = "rule") =>
        /\ outcomes[eidx] = "fail"
        /\ failedAt = "inspect"
        /\ ~RecordedFresh(eidx)
        /\ \A r \in FreshInFile : r.slug # macApps[eidx].slug

\* C23 witness: an entry with a prior record got a Rule without signing
\* fields, was uninstalled and reported as failed, and the document written
\* after it still holds the prior record.
C23_Witness ==
    /\ EntryFinished
    /\ collector = "darwin"
    /\ output = "rule"
    /\ outcomes[eidx] = "fail"
    /\ uninstalled
    /\ HasRecord(preFile, macApps[eidx].slug)
    /\ file.status = "ok"
    /\ file # preFile
    /\ RecordOf(file, macApps[eidx].slug) = RecordOf(preFile, macApps[eidx].slug)

\* what parseSantactlOutput makes of the bytes runSantactl returned
ParseInput(out) == IF out \in {"", "null", "[]"} THEN "empty" ELSE out

\* the inspection of the entry is reported as failed: runSantactl returned an
\* error, or parseSantactlOutput did on the bytes it returned
InspectionFailed ==
    /\ santa.at = "returned"
    /\ santa.result = "error" \/ ParseFails(ParseInput(santa.returned))

\* C24  Free-text fallback, as claimed: an inspection that is reported as
\* failed after structured mode was run has invoked the tool in free-text
\* mode at least once.
C24_TextBeforeFailure ==
    (InspectionFailed /\ santa.jsonCalls >= 1) => santa.textCalls >= 1

\* C24  Free-text fallback after an empty list: free-text mode is invoked
\* only after a structured invocation on a path wrote the empty list; an
\* inspection reported as failed after such an output has invoked free-text
\* mode at least once, unless it failed on a record with only a Rule that a
\* structured invocation handed back.
C24_TextAfterEmptyList ==
    /\ santa.textCalls >= 1 => santa.sawEmptyList
    /\ (InspectionFailed /\ santa.sawEmptyList /\ santa.returned # "rule")
           => santa.textCalls >= 1

\* C24 witness: all three attempts saw the empty list, free-text mode was
\* invoked in each of them and once more after the loop, and the inspection
\* is reported as failed.
C24_Witness ==
    /\ InspectionFailed
    /\ santa.sawEmptyList
    /\ santa.attempt = MaxRetries
    /\ santa.finalText
    /\ santa.textCalls >= 4

\* the counts a call of runSantactl stays within: the attempts, the paths,
\* and the invocations of the tool in one attempt
SantaBounded ==
    /\ santa.attempt \in 1..MaxRetries
    /\ Len(PathsToTry(santa)) \in 1..2
    /\ santa.pathIdx \in 1..Len(PathsToTry(santa))
    /\ \A r \in 1..MaxRetries : santa.perRound[r] <= 3 * Len(PathsToTry(santa))

\* the bytes are data: a list that is not empty, or converted free-text data
UsefulBytes == santa.result = "bytes" /\ ValidData(santa.returned)

ToolOrder == <<"powershell", "signtool", "certutil">>

YieldsField(c) == c \in {"fields", "subject", "thumb", "both"}

SigInOrder == \A i \in 1..Len(sig.tried) : sig.tried[i] = ToolOrder[i]

\* C26  Signature fallback, as claimed: the tools run in the order
\* PowerShell, signtool, certutil; the result returned is that of the first
\* tool that yielded a thumbprint or a subject, no tool before it yielded
\* one, and the error, which names all three tools, is returned only when
\* none of the three yielded one.
C26_FirstYieldingWins ==
    sig.at = "returned" =>
        /\ SigInOrder
        /\ sig.result = "ok" =>
               /\ sig.from = sig.tried[Len(sig.tried)]
               /\ YieldsField(sig.seen[Len(sig.seen)])
               /\ \A i \in 1..(Len(sig.seen) - 1) : ~YieldsField(sig.seen[i])
        /\ sig.result = "error" =>
               /\ Len(sig.tried) = 3
               /\ \A i \in 1..3 : ~YieldsField(sig.seen[i])
               /\ sig.named = {"powershell", "signtool", "certutil"}

\* C26  Signature fallback by each tool's own test: the tools run in the
\* order PowerShell, signtool, certutil, a later one only after every
\* earlier one returned an error; PowerShell's result is returned when its
\* data line has four parts, signtool's when it yielded a subject (a
\* thumbprint alone is an error), certutil's when it yielded a subject or a
\* thumbprint; the error, which names all three tools, is returned only when
\* all three returned an error.
C26_FirstAcceptedWins ==
    sig.at = "returned" =>
        LET accepted(i) ==
                \/ i = 1 /\ sig.seen[i] = "fields"
                \/ i = 2 /\ sig.seen[i] \in {"subject", "both"}
                \/ i = 3 /\ sig.seen[i] \in {"subject", "thumb", "both"}
        IN  /\ SigInOrder
            /\ \A i \in 1..(Len(sig.seen) - 1) : ~accepted(i)
            /\ sig.result = "ok" <=> accepted(Len(sig.seen))
            /\ sig.result = "ok" => sig.from = sig.tried[Len(sig.tried)]
            /\ sig.result = "error" <=>
                   (Len(sig.tried) = 3 /\ \A i \in 1..3 : ~accepted(i))
            /\ sig.result = "error" => sig.named = {"powershell", "signtool", "certutil"}

\* C26 witness: PowerShell failed, signtool yielded a thumbprint and no
\* subject, and the result of certutil was returned.
C26_Witness ==
    /\ sig.at = "returned"
    /\ sig.result = "ok"
    /\ sig.from = "certutil"
    /\ sig.seen[1] = "fail"
    /\ sig.seen[2] = "thumb"

\* the handler goroutine is inside saveSecurityInfo: it has received the
\* signal and has not yet come back from the save
HandlerInSave == hpc \in {"save", "write"}

\* C27  No concurrent access, as claimed: while the handler goroutine is
\* inside saveSecurityInfo the main goroutine is not inside its own
\* saveSecurityInfo, writing the result file.
C27_NoConcurrentSave == ~(HandlerInSave /\ pc = "write")

\* the process has ended after it had created the scratch directory
EndedAfterMkdir == pc \in {"exit_done", "exit_finalerr", "exit_sig", "exit_sigerr"}

\* C28  Scratch directory removed, as claimed: whenever the collector process
\* has ended after creating the scratch directory, by returning from main,
\* by the exit after a failed final save or by an exit of the interruption
\* handler, the scratch directory is gone.
C28_ScratchRemovedAtExit == EndedAfterMkdir => ~tempDirThere

\* C29  History truncation, as claimed: after any sequence of runs of
\* build_history and of trackVersionChanges the history file holds at most
\* the limit of changes, and every change the last truncation dropped is no
\* newer than every change the file retained.
C29_TruncationDropsOldest ==
    /\ Len(hist.file) <= HistoryLimit
    /\ \A i \in DOMAIN hist.dropped : \A j \in DOMAIN hist.file :
           hist.dropped[i] <= hist.file[j]

\* C30  Kind by content only, as claimed: the kind detectActualFileType
\* returns for a downloaded file is the kind it returns for a file of the
\* same content under any other path, whatever slug and extension the path
\* is made of.
C30_KindDependsOnContentOnly ==
    dl.actual \notin {"none", "error"} =>
        \A w \in SlugWords : \A e \in {".dmg", ".pkg", ".zip"} :
            DetectActualFileType(FileOutput(w, e, dl.content)) = dl.actual

(* ----------------------- progress of the loop -------------------------- *)
\* the main goroutine is never blocked: every call it makes returns
LiveSpec == Spec /\ WF_vars(MainNext)

====
